---- MODULE Spec2Model ----
(***************************************************************************)
(* Model of ObservableStore (src/src/index.ts): a state container whose    *)
(* whole-state update(mutate) asks a Producer for the new state and the    *)
(* list of edits, groups the edits by top-level field and drives the plain *)
(* listeners, the keyed / wildcard listeners and the value subscriptions   *)
(* of an event emitter.                                                    *)
(*                                                                         *)
(* The emitter itself (package radiate) is not part of the sources; its    *)
(* operations are modelled from section 4.2 of the specification.          *)
(* The older per-field update(key, mutate) of src/unnamed/part_004 is      *)
(* modelled beside the whole-state update.                                 *)
(***************************************************************************)
EXTENDS Integers, Sequences, FiniteSets, TLC

\* ------------------------------------------------------------------ bounds
MaxRegs == 2      \* registrations made over a run
MaxEdits == 2     \* assignments one mutation function performs

\* ----------------------------------------------------------------- domains
\* The state tree: { a: { k1: { p }, k2 }, b: { k1 } }
Fields == {"a", "b"}            \* the fields of the initial state
KeysOf(f) == IF f = "a" THEN {"k1", "k2"} ELSE {"k1"}
Keys == UNION {KeysOf(f) : f \in Fields}
Star == "*"                     \* the wildcard key
Buckets(f) == KeysOf(f) \cup {Star}
Leaf == "p"                     \* a property of the object stored under a.k1
Callbacks == {"c1", "c2"}       \* identities of the callbacks callers pass
NoKey == "-"
NoCb == "-"
AddedCb == "c2"                 \* the callback a callback registers

AllPaths ==
    {<<>>} \cup {<<f>> : f \in Fields}
           \cup UNION {{<<f, k>> : k \in KeysOf(f)} : f \in Fields}
           \cup {<<"a", "k1", Leaf>>}

PathsOf(f) == {p \in AllPaths : Len(p) > 0 /\ p[1] = f}

\* The paths of the keys of the fields.
KeyPaths == {p \in AllPaths : Len(p) = 2}

\* A mutation function is the sequence of paths it assigns to.
MutationsOver(paths) == UNION {[1..n -> paths] : n \in 0..MaxEdits}
Mutations == MutationsOver(AllPaths)
\* The mutation function of the update a callback calls.
InnerMutation == << <<"b", "k1">> >>

VARIABLES
    state,      \* this.state: field -> (key -> value)
    plain,      \* emitter: event of field -> registrations, in registration order
    keyed,      \* emitter: event of field -> key or "*" -> registrations
    info,       \* what each registration made so far was made with
    cancelled,  \* registrations whose unsubscribe closure or off has run
    fired,      \* one-shot registrations whose listener has been invoked
    log,        \* what the last operation did, in order
    last,       \* the last operation and what it returned
    copy,       \* the object the caller's last getState call returned
    subscriptions,      \* the fields this.subscriptions has an entry for
    keyedSubscriptions  \* the fields this.keyedSubscriptions has an entry for

vars == <<state, plain, keyed, info, cancelled, fired, log, last, copy,
          subscriptions, keyedSubscriptions>>

\* The two maps of the store, as one.
maps == <<subscriptions, keyedSubscriptions>>

\* ---------------------------------------------------------------- helpers
Toggle(v) == 1 - v

SeqRemove(s, x) == SelectSeq(s, LAMBDA y : y # x)

RECURSIVE IndexOf(_, _, _)
IndexOf(s, x, i) ==
    IF i > Len(s) THEN 0
    ELSE IF s[i] = x THEN i
    ELSE IndexOf(s, x, i + 1)

Contains(s, x) == IndexOf(s, x, 1) # 0

\* ------------------------------------------------------------- the Producer
\* One recorded assignment: the new state and the edit describing it.
Assign(st, path) ==
    IF Len(path) = 0 THEN
        LET ns == [f \in DOMAIN st |-> [k \in KeysOf(f) |-> Toggle(st[f][k])]]
        IN  [state |-> ns, patch |-> [op |-> "replace", path |-> path, value |-> ns]]
    ELSE IF Len(path) = 1 /\ path[1] \notin DOMAIN st THEN
        LET nv == [k \in KeysOf(path[1]) |-> 0]
        IN  [state |-> [f \in DOMAIN st \cup {path[1]} |->
                           IF f = path[1] THEN nv ELSE st[f]],
             patch |-> [op |-> "add", path |-> path, value |-> nv]]
    ELSE IF Len(path) = 1 THEN
        LET nv == [k \in KeysOf(path[1]) |-> Toggle(st[path[1]][k])]
        IN  [state |-> [st EXCEPT ![path[1]] = nv],
             patch |-> [op |-> "replace", path |-> path, value |-> nv]]
    ELSE
        LET nv == Toggle(st[path[1]][path[2]])
        IN  [state |-> [st EXCEPT ![path[1]][path[2]] = nv],
             patch |-> [op |-> "replace", path |-> path, value |-> nv]]

RECURSIVE Record(_, _, _, _)
Record(st, mutate, i, patches) ==
    IF i > Len(mutate) THEN [state |-> st, patches |-> patches]
    ELSE LET r == Assign(st, mutate[i])
         IN  Record(r.state, mutate, i + 1, Append(patches, r.patch))

\* createFromPatchRecorder: [state, recordPatches(state, mutate)]
createFromPatchRecorder(st, mutate) == Record(st, mutate, 1, <<>>)

\* ------------------------------------------------------- the patch grouper
\* A Map in insertion order: a sequence of [field, patches] entries.
MapHas(map, f) == \E i \in 1..Len(map) : map[i].field = f

\* Variant: the pushed patch gets a path relative to the field.
MapPush_Relative(map, f, patch) ==
    LET rel == [patch EXCEPT !.path = Tail(@)] IN
    IF MapHas(map, f)
    THEN [i \in 1..Len(map) |->
            IF map[i].field = f
            THEN [map[i] EXCEPT !.patches = Append(@, rel)]
            ELSE map[i]]
    ELSE Append(map, [field |-> f, patches |-> <<rel>>])

MapPush(map, f, patch) ==
    IF MapHas(map, f)
    THEN [i \in 1..Len(map) |->
            IF map[i].field = f
            THEN [map[i] EXCEPT !.patches = Append(@, patch)]
            ELSE map[i]]
    ELSE Append(map, [field |-> f, patches |-> <<patch>>])

\* Variant: an edit with an empty path is passed over.
RECURSIVE GroupLoop_SkipEmpty(_, _, _, _)
GroupLoop_SkipEmpty(patches, i, topLevel, all) ==
    IF i > Len(patches) THEN [threw |-> FALSE, topLevel |-> topLevel, all |-> all]
    ELSE IF Len(patches[i].path) = 0
    THEN GroupLoop_SkipEmpty(patches, i + 1, topLevel, all)
    ELSE LET patch == patches[i]
             fieldKey == patch.path[1]
             top == IF Len(patch.path) = 1 \/ Len(patch.path) = 2
                    THEN MapPush(topLevel, fieldKey, patch)
                    ELSE topLevel
         IN  GroupLoop_SkipEmpty(patches, i + 1, top, MapPush(all, fieldKey, patch))

RECURSIVE GroupLoop(_, _, _, _)
GroupLoop(patches, i, topLevel, all) ==
    IF i > Len(patches) THEN [threw |-> FALSE, topLevel |-> topLevel, all |-> all]
    ELSE IF Len(patches[i].path) = 0
    THEN [threw |-> TRUE, topLevel |-> <<>>, all |-> <<>>]
    ELSE LET patch == patches[i]
             fieldKey == patch.path[1]
             top == IF Len(patch.path) = 1 \/ Len(patch.path) = 2
                    THEN MapPush(topLevel, fieldKey, patch)
                    ELSE topLevel
         IN  GroupLoop(patches, i + 1, top, MapPush(all, fieldKey, patch))

\* Variant: one group per edit instead of one per field.
groupPatchesByField_PerEdit(patches) ==
    IF \E i \in 1..Len(patches) : Len(patches[i].path) = 0
    THEN [threw |-> TRUE, topLevel |-> <<>>, all |-> <<>>]
    ELSE [threw |-> FALSE, topLevel |-> <<>>,
          all |-> [i \in 1..Len(patches) |->
                     [field |-> patches[i].path[1], patches |-> <<patches[i]>>]]]

groupPatchesByField(patches) == GroupLoop(patches, 1, <<>>, <<>>)

\* A Set in insertion order: a sequence without repetition.
\* Variant: an edit of the field itself counts as a change of a key, the
\* missing second segment.
RECURSIVE ExtractLoop_AnyLength(_, _, _)
ExtractLoop_AnyLength(patches, i, keys) ==
    IF i > Len(patches) THEN keys
    ELSE LET key == IF Len(patches[i].path) > 1 THEN patches[i].path[2] ELSE NoKey
         IN  IF Len(patches[i].path) > 0 /\ ~Contains(keys, key)
             THEN ExtractLoop_AnyLength(patches, i + 1, Append(keys, key))
             ELSE ExtractLoop_AnyLength(patches, i + 1, keys)

RECURSIVE ExtractLoop(_, _, _)
ExtractLoop(patches, i, keys) ==
    IF i > Len(patches) THEN keys
    ELSE IF Len(patches[i].path) > 1 /\ ~Contains(keys, patches[i].path[2])
    THEN ExtractLoop(patches, i + 1, Append(keys, patches[i].path[2]))
    ELSE ExtractLoop(patches, i + 1, keys)

\* Variant: the key is taken from the first path segment, as for patches
\* whose paths are relative to the field.
extractSecondKeys_FirstSegment(patches) ==
    IF \E i \in 1..Len(patches) : Len(patches[i].path) > 0
    THEN <<patches[CHOOSE i \in 1..Len(patches) : Len(patches[i].path) > 0].path[1]>>
    ELSE <<>>

extractSecondKeysFromPatches(patches) == ExtractLoop(patches, 1, <<>>)

\* -------------------------------------------------------------- the emitter
\* The store's state, the emitter's tables and the record of what happens,
\* threaded through a dispatch: m = [state, info, plain, keyed, cancelled,
\* fired, log, threw]; threw says that a listener has thrown and the error
\* is on its way out.
Machine == [state |-> state, info |-> info, plain |-> plain, keyed |-> keyed,
            cancelled |-> cancelled, fired |-> fired, log |-> <<>>, threw |-> FALSE]

\* Removal of one registration from the list it was appended to.
RemoveReg(m, t) ==
    LET r == m.info[t] IN
    IF r.table = "plain"
    THEN [m EXCEPT !.plain[r.field] = SeqRemove(@, t)]
    ELSE [m EXCEPT !.keyed[r.field][r.key] = SeqRemove(@, t)]

\* The closure on / once / onKeyed / onceKeyed return.
unsubscribe(m, t) == [RemoveReg(m, t) EXCEPT !.cancelled = @ \cup {t}]

\* One line of the record: an emitter call made by the store (type "emit",
\* "emitKeyed"), a key extraction ("extract"), a listener invocation
\* ("call", with the table it was found in and the arguments it got), or
\* what a callback did with the store while it ran ("add": it registered a
\* listener, "get": it read the state, "update": it called update).
Entry(type, via, f, k, t, cb, args) ==
    [type |-> type, via |-> via, field |-> f, key |-> k, tok |-> t,
     cb |-> cb, args |-> args]

\* One listener of the snapshot is invoked. A one-shot listener is removed;
\* a value subscription re-reads the field.
Called(m, t, via, f, k, args) ==
    [m EXCEPT !.log = Append(@, Entry("call", via, f, k, t, m.info[t].cb, args)),
              !.fired = IF m.info[t].once THEN @ \cup {t} ELSE @]

\* A callback that registers a listener: for the event (and key) it is
\* registered for, or, when it names a key (addsKey), for that key of the
\* keyed event of its field.
AddWithin(m, t) ==
    LET r == m.info[t]
        n == Len(m.info) + 1
        table == IF r.addsKey # NoKey THEN "keyed" ELSE r.table
        key == IF r.addsKey # NoKey THEN r.addsKey ELSE r.key
        added == [r EXCEPT !.api = IF table = "plain" THEN "on" ELSE "onKeyed",
                           !.table = table, !.key = key,
                           !.cb = AddedCb, !.once = FALSE, !.kind = "cb",
                           !.adds = FALSE, !.addsKey = NoKey]
    IN  IF n > MaxRegs THEN m
        ELSE IF table = "plain"
        THEN [m EXCEPT !.info = Append(@, added),
                       !.plain[r.field] = Append(@, n),
                       !.log = Append(@, Entry("add", "cb", r.field, key, n,
                                               AddedCb, <<>>))]
        ELSE [m EXCEPT !.info = Append(@, added),
                       !.keyed[r.field][key] = Append(@, n),
                       !.log = Append(@, Entry("add", "cb", r.field, key, n,
                                               AddedCb, <<>>))]

\* A callback that reads the store (get / getState).
ReadWithin(m, t) ==
    [m EXCEPT !.log = Append(@, Entry("get", "cb", m.info[t].field, m.info[t].key,
                                      t, m.info[t].cb, <<m.state>>))]

RECURSIVE FieldLoop(_, _, _)

\* Variant: the update a callback calls stores its state and leaves its
\* events undispatched when it returns to the callback.
UpdateWithin_Undispatched(m, t, mutate) ==
    LET c == createFromPatchRecorder(m.state, mutate)
        g == groupPatchesByField(c.patches)
        m1 == [m EXCEPT !.state = c.state,
                        !.log = Append(@, Entry("update", "cb", m.info[t].field,
                                                m.info[t].key, t, m.info[t].cb,
                                                <<m.state, c.patches>>))]
    IN  IF g.threw THEN [m1 EXCEPT !.threw = TRUE]
        ELSE m1

\* A callback that calls update: create runs on the state the store holds,
\* the result is stored, the edits are grouped and dispatched.
UpdateWithin(m, t, mutate) ==
    LET c == createFromPatchRecorder(m.state, mutate)
        g == groupPatchesByField(c.patches)
        m1 == [m EXCEPT !.state = c.state,
                        !.log = Append(@, Entry("update", "cb", m.info[t].field,
                                                m.info[t].key, t, m.info[t].cb,
                                                <<m.state, c.patches>>))]
    IN  IF g.threw THEN [m1 EXCEPT !.threw = TRUE]
        ELSE FieldLoop(m1, g.all, 1)

\* What the callback of registration t does when it is invoked: it calls its
\* own unsubscribe closure, throws, calls the unsubscribe closure of another
\* registration, registers a listener, reads the store or updates it.
Act(m, t) ==
    LET r == m.info[t] IN
    IF r.self THEN unsubscribe(m, t)
    ELSE IF r.throws THEN [m EXCEPT !.threw = TRUE]
    ELSE IF r.removes # 0
    THEN IF r.removes <= Len(m.info) THEN unsubscribe(m, r.removes) ELSE m
    ELSE IF r.adds THEN AddWithin(m, t)
    ELSE IF r.reads THEN ReadWithin(m, t)
    ELSE IF r.reenters THEN UpdateWithin(m, t, InnerMutation)
    ELSE m

Invoke(m, t, via, f, k, edits) ==
    LET r == m.info[t]
        args == IF r.kind = "sub" THEN <<m.state[f]>>
                ELSE IF via = "wild" THEN <<k, edits>>
                ELSE <<edits>>
    IN  Act(Called(IF r.once THEN RemoveReg(m, t) ELSE m, t, via, f, k, args), t)

\* The listeners of the snapshot are invoked in order.
RECURSIVE RunList(_, _, _, _, _, _, _)
RunList(m, snapshot, i, via, f, k, edits) ==
    IF i > Len(snapshot) \/ m.threw THEN m
    ELSE RunList(Invoke(m, snapshot[i], via, f, k, edits),
                 snapshot, i + 1, via, f, k, edits)

emit(m, f, edits) ==
    RunList([m EXCEPT !.log = Append(@, Entry("emit", "-", f, NoKey, 0, NoCb,
                                              <<edits>>))],
            m.plain[f], 1, "plain", f, NoKey, edits)

\* The listeners registered for a key; none for a key nobody registered.
ListFor(m, f, k) == IF k \in DOMAIN m.keyed[f] THEN m.keyed[f][k] ELSE <<>>

\* The wildcard listeners, as they were when emitKeyed was called.
WildPart(m1, wild, f, k, edits) ==
    RunList(m1, wild, 1, "wild", f, k, edits)

KeyPart(m0, f, k, edits) ==
    WildPart(RunList(m0, ListFor(m0, f, k), 1, "key", f, k, edits),
             m0.keyed[f][Star], f, k, edits)

emitKeyed(m, f, k, edits) ==
    KeyPart([m EXCEPT !.log = Append(@, Entry("emitKeyed", "-", f, k, 0, NoCb,
                                              <<k, edits>>))],
            f, k, edits)

hasKeyedListeners(m, f) == \E k \in Buckets(f) : Len(m.keyed[f][k]) > 0

\* ------------------------------------------------------------------- update
\* Variant: each keyed event carries only the edits under its key.
RECURSIVE KeyLoop_Filtered(_, _, _, _, _)
KeyLoop_Filtered(m, f, changedKeys, i, fieldPatches) ==
    IF i > Len(changedKeys) \/ m.threw THEN m
    ELSE KeyLoop_Filtered(
            emitKeyed(m, f, changedKeys[i],
                      SelectSeq(fieldPatches,
                                LAMBDA e : Len(e.path) > 1 /\ e.path[2] = changedKeys[i])),
            f, changedKeys, i + 1, fieldPatches)

\* Variant: every key's event goes to the keyed listeners the event had when
\* the loop over the changed keys began.
RECURSIVE KeyLoopOver(_, _, _, _, _, _)
KeyLoopOver(m, table, f, changedKeys, i, fieldPatches) ==
    IF i > Len(changedKeys) \/ m.threw THEN m
    ELSE KeyLoopOver(emitKeyed([m EXCEPT !.keyed = table], f, changedKeys[i],
                               fieldPatches),
                     table, f, changedKeys, i + 1, fieldPatches)

KeyLoop_OneTable(m, f, changedKeys, i, fieldPatches) ==
    KeyLoopOver(m, m.keyed, f, changedKeys, i, fieldPatches)

RECURSIVE KeyLoop(_, _, _, _, _)
KeyLoop(m, f, changedKeys, i, fieldPatches) ==
    IF i > Len(changedKeys) \/ m.threw THEN m
    ELSE KeyLoop(emitKeyed(m, f, changedKeys[i], fieldPatches),
                 f, changedKeys, i + 1, fieldPatches)

\* The body of the loop over all.entries(): the field's plain event, then,
\* when the event has keyed listeners, one keyed event per changed key.
\* Variant: one keyed event per edit that has a second segment.
KeyedPart_PerEdit(m1, fieldKey, fieldPatches, changedKeys) ==
    LET perEdit == SelectSeq(fieldPatches, LAMBDA e : Len(e.path) > 1)
        ks == [i \in 1..Len(perEdit) |-> perEdit[i].path[2]]
    IN  KeyLoop([m1 EXCEPT !.log =
                    Append(@, Entry("extract", "-", fieldKey, NoKey, 0, NoCb, <<ks>>))],
                fieldKey, ks, 1, fieldPatches)

KeyedPart(m1, fieldKey, fieldPatches, changedKeys) ==
    KeyLoop([m1 EXCEPT !.log =
                Append(@, Entry("extract", "-", fieldKey, NoKey, 0, NoCb,
                                <<changedKeys>>))],
            fieldKey, changedKeys, 1, fieldPatches)

\* Variant: keys are extracted and keyed events emitted without asking
\* whether the event has keyed listeners.
AfterEmit_Always(m1, fieldKey, fieldPatches) ==
    IF m1.threw THEN m1
    ELSE KeyedPart(m1, fieldKey, fieldPatches,
                   extractSecondKeysFromPatches(fieldPatches))

AfterEmit(m1, fieldKey, fieldPatches) ==
    IF m1.threw THEN m1
    ELSE IF hasKeyedListeners(m1, fieldKey)
    THEN KeyedPart(m1, fieldKey, fieldPatches,
                   extractSecondKeysFromPatches(fieldPatches))
    ELSE m1

\* Variant: the keyed listeners are those the event had before its plain
\* listeners ran.
FieldStep_EarlyKeyed(m, fieldKey, fieldPatches) ==
    AfterEmit([emit(m, fieldKey, fieldPatches) EXCEPT !.keyed = m.keyed],
              fieldKey, fieldPatches)

\* Variant: whether the event has keyed listeners is asked before the plain
\* event is emitted.
FieldStep_CheckedAhead(m, fieldKey, fieldPatches) ==
    LET m1 == emit(m, fieldKey, fieldPatches) IN
    IF m1.threw THEN m1
    ELSE IF hasKeyedListeners(m, fieldKey)
    THEN KeyedPart(m1, fieldKey, fieldPatches,
                   extractSecondKeysFromPatches(fieldPatches))
    ELSE m1

\* Variant: the keyed events of a field are emitted ahead of its plain event.
FieldStep_KeyedFirst(m, fieldKey, fieldPatches) ==
    emit(AfterEmit(m, fieldKey, fieldPatches), fieldKey, fieldPatches)

FieldStep(m, fieldKey, fieldPatches) ==
    AfterEmit(emit(m, fieldKey, fieldPatches), fieldKey, fieldPatches)

\* Variant: an error thrown while one field is dispatched is held back until
\* the other fields have been dispatched.
RECURSIVE FieldLoop_Contained(_, _, _)
FieldLoop_Contained(m, all, i) ==
    IF i > Len(all) THEN m
    ELSE LET r == FieldStep([m EXCEPT !.threw = FALSE], all[i].field, all[i].patches)
         IN  FieldLoop_Contained([r EXCEPT !.threw = m.threw \/ r.threw], all, i + 1)

\* An error a listener throws leaves the loop, and update.
FieldLoop(m, all, i) ==
    IF i > Len(all) \/ m.threw THEN m
    ELSE FieldLoop(FieldStep(m, all[i].field, all[i].patches), all, i + 1)

\* update(mutate): what it leaves behind and what it returns.
\* What update leaves behind when its loop over the groups ended in m:
\* this.state was assigned before the loop, and is what the listeners left
\* there; the edit list is returned unless a listener threw.
Finished(patches, m) ==
    [state |-> m.state, m |-> m, assigned |-> TRUE,
     outcome |-> IF m.threw THEN "listenerThrew" ELSE "ok",
     patches |-> patches, ret |-> IF m.threw THEN <<>> ELSE patches]

\* Variant: the listeners run while the store still holds the state it had
\* before the call, and this.state is assigned after them.
Dispatch_StaleState(newState, patches, g) ==
    IF g.threw
    THEN [state |-> newState, m |-> Machine, assigned |-> TRUE, outcome |-> "threw",
          patches |-> patches, ret |-> <<>>]
    ELSE [Finished(patches, FieldLoop(Machine, g.all, 1)) EXCEPT !.state = newState]

\* Variant: the new value of a field is stored when the field's turn in the
\* loop comes.
RECURSIVE StoreLoop(_, _, _, _)
StoreLoop(m, newState, all, i) ==
    IF i > Len(all) \/ m.threw THEN m
    ELSE StoreLoop(FieldStep([m EXCEPT !.state[all[i].field] = newState[all[i].field]],
                             all[i].field, all[i].patches),
                   newState, all, i + 1)

Dispatch_StorePerField(newState, patches, g) ==
    IF g.threw
    THEN [state |-> newState, m |-> Machine, assigned |-> TRUE, outcome |-> "threw",
          patches |-> patches, ret |-> <<>>]
    ELSE Finished(patches, StoreLoop(Machine, newState, g.all, 1))

\* Variant: the edits of the first group are returned.
Dispatch_ReturnsFirstGroup(newState, patches, g) ==
    IF g.threw
    THEN [state |-> newState, m |-> Machine, assigned |-> TRUE, outcome |-> "threw",
          patches |-> patches, ret |-> <<>>]
    ELSE [Finished(patches, FieldLoop([Machine EXCEPT !.state = newState], g.all, 1))
            EXCEPT !.ret = IF Len(g.all) = 0 THEN <<>> ELSE g.all[1].patches]

\* Variant: when update throws, the state of before the call is put back.
Dispatch_RollsBack(newState, patches, g) ==
    IF g.threw
    THEN [state |-> state, m |-> Machine, assigned |-> TRUE, outcome |-> "threw",
          patches |-> patches, ret |-> <<>>]
    ELSE LET r == Finished(patches,
                           FieldLoop([Machine EXCEPT !.state = newState], g.all, 1))
         IN  IF r.outcome = "listenerThrew" THEN [r EXCEPT !.state = state] ELSE r

Dispatch(newState, patches, g) ==
    IF g.threw
    THEN [state |-> newState, m |-> Machine, assigned |-> TRUE, outcome |-> "threw",
          patches |-> patches, ret |-> <<>>]
    ELSE Finished(patches, FieldLoop([Machine EXCEPT !.state = newState], g.all, 1))

Created(c) == Dispatch(c.state, c.patches, groupPatchesByField(c.patches))

update(mutate) == Created(createFromPatchRecorder(state, mutate))

\* ------------------------------------------ update(key, mutate), per field
\* The per-field shape of update (src/unnamed/part_004): the mutation
\* function receives the value of one field, and the Producer records the
\* edits with paths that start below the field.
RelPathsOf(f) == {SubSeq(p, 2, Len(p)) : p \in {q \in PathsOf(f) : Len(q) > 1}}

FieldMutations(f) == MutationsOver(RelPathsOf(f))

AssignIn(value, path) ==
    LET nv == Toggle(value[path[1]])
    IN  [state |-> [value EXCEPT ![path[1]] = nv],
         patch |-> [op |-> "replace", path |-> path, value |-> nv]]

RECURSIVE RecordIn(_, _, _, _)
RecordIn(value, mutate, i, patches) ==
    IF i > Len(mutate) THEN [state |-> value, patches |-> patches]
    ELSE LET r == AssignIn(value, mutate[i])
         IN  RecordIn(r.state, mutate, i + 1, Append(patches, r.patch))

\* this.create(this.state[key], mutate)
createFieldFromPatchRecorder(value, mutate) == RecordIn(value, mutate, 1, <<>>)

\* Variant: the key is the second segment, as in update(mutate).
RECURSIVE ExtractKeysLoop_SecondSegment(_, _, _)
ExtractKeysLoop_SecondSegment(patches, i, keys) ==
    IF i > Len(patches) THEN keys
    ELSE IF Len(patches[i].path) > 1 /\ ~Contains(keys, patches[i].path[2])
    THEN ExtractKeysLoop_SecondSegment(patches, i + 1, Append(keys, patches[i].path[2]))
    ELSE ExtractKeysLoop_SecondSegment(patches, i + 1, keys)

\* The first segments of the edits, each once, in order of first appearance.
RECURSIVE ExtractKeysLoop(_, _, _)
ExtractKeysLoop(patches, i, keys) ==
    IF i > Len(patches) THEN keys
    ELSE IF Len(patches[i].path) > 0 /\ ~Contains(keys, patches[i].path[1])
    THEN ExtractKeysLoop(patches, i + 1, Append(keys, patches[i].path[1]))
    ELSE ExtractKeysLoop(patches, i + 1, keys)

extractKeysFromPatches(patches) == ExtractKeysLoop(patches, 1, <<>>)

\* The keyed part of update(key, mutate).
FieldKeyed(m1, key, patches) ==
    IF m1.threw THEN m1
    ELSE IF hasKeyedListeners(m1, key)
    THEN KeyedPart(m1, key, patches, extractKeysFromPatches(patches))
    ELSE m1

\* Variant: an update that recorded no edit emits nothing.
updateField_SkipEmpty(key, mutate) ==
    LET c == createFieldFromPatchRecorder(state[key], mutate)
        m0 == [Machine EXCEPT !.state[key] = c.state]
        m2 == IF c.patches = <<>> THEN m0
              ELSE FieldKeyed(emit(m0, key, c.patches), key, c.patches)
    IN  [state |-> m2.state, m |-> m2, assigned |-> TRUE,
         outcome |-> IF m2.threw THEN "listenerThrew" ELSE "ok",
         patches |-> c.patches, ret |-> <<>>]

\* update(key, mutate): the field's new value is stored, the plain event is
\* always emitted, keyed events are emitted when the event has keyed
\* listeners; nothing is returned.
updateField(key, mutate) ==
    LET c == createFieldFromPatchRecorder(state[key], mutate)
        m0 == [Machine EXCEPT !.state[key] = c.state]
        m2 == FieldKeyed(emit(m0, key, c.patches), key, c.patches)
    IN  [state |-> m2.state, m |-> m2, assigned |-> TRUE,
         outcome |-> IF m2.threw THEN "listenerThrew" ELSE "ok",
         patches |-> c.patches, ret |-> <<>>]

\* update(mutate) with a mutation function that throws after the assignments
\* of mutate: this.create throws, and no statement after it runs. Whether the
\* state object then shows the assignments made before the throw is up to
\* the Producer (applied).
\* Variant: the error is caught and the edits recorded so far are dispatched.
updateThrowing_Swallowed(mutate, applied) ==
    Created(createFromPatchRecorder(state, mutate))

updateThrowing(mutate, applied) ==
    [state |-> IF applied THEN createFromPatchRecorder(state, mutate).state ELSE state,
     m |-> Machine, assigned |-> FALSE, outcome |-> "createThrew",
     patches |-> <<>>, ret |-> <<>>]

get(name) == state[name]

\* -------------------------------------------------- what getState hands out
\* A slot of a container handed out by getState holds a reference: to the
\* very object the store's slot of that field references now ("store"), to
\* another object ("own", with that object's value), or nothing, once the
\* caller deleted it ("absent"). same says whether the container is the
\* object this.state references.
Shared == [ref |-> "store", value |-> <<>>]
Own(v) == [ref |-> "own", value |-> <<v>>]
Absent == [ref |-> "absent", value |-> <<>>]

NoCopy == [held |-> FALSE, same |-> FALSE, slots |-> [f \in Fields |-> Absent]]

\* Variant: a copy taken when the store was constructed is handed out.
getState_Initial ==
    [held |-> TRUE, same |-> FALSE,
     slots |-> [f \in Fields |-> Own([k \in KeysOf(f) |-> 0])]]

\* Variant: this.state itself is handed out.
getState_NoCopy ==
    [held |-> TRUE, same |-> TRUE, slots |-> [f \in DOMAIN state |-> Shared]]

\* getState(): {...this.state}, a new container with the slots of this.state
getState ==
    [held |-> TRUE, same |-> FALSE, slots |-> [f \in DOMAIN state |-> Shared]]

\* What reading slot f of container c gives when the store's state is st:
\* <<value>>, or <<>> for a deleted slot.
DerefIn(c, st, f) ==
    IF c.slots[f].ref = "store" THEN <<st[f]>> ELSE c.slots[f].value

\* The default Producer applies the assignments to the state object in
\* place: an assignment below a field changes the object the field's slot
\* references, which a container handed out earlier shares; an assignment of
\* the field itself puts a new object in the store's slot, and the container
\* keeps the old one as the assignments before it left it.
Reassigns(path, f) == Len(path) = 0 \/ (Len(path) = 1 /\ path[1] = f)

Detached(st, mutate, f) ==
    LET i == CHOOSE i \in 1..Len(mutate) :
                /\ Reassigns(mutate[i], f)
                /\ \A j \in 1..(i - 1) : ~Reassigns(mutate[j], f)
    IN  Own(createFromPatchRecorder(st, SubSeq(mutate, 1, i - 1)).state[f])

CopyAfter(c, st, mutate) ==
    IF c.same THEN c
    ELSE [c EXCEPT !.slots =
            [f \in Fields |->
                IF c.slots[f].ref = "store"
                     /\ \E i \in 1..Len(mutate) : Reassigns(mutate[i], f)
                THEN Detached(st, mutate, f)
                ELSE c.slots[f]]]

\* ------------------------------------------------------------------ actions
\* The record of an operation: what was called with what, how it ended,
\* the Producer's edit list and the returned value of an update, and whether
\* the operation assigned this.state.
Result(op, f, k, cb, outcome, patches, ret, assigned) ==
    [op |-> op, field |-> f, key |-> k, cb |-> cb, outcome |-> outcome,
     patches |-> patches, ret |-> ret, assigned |-> assigned]

Done(op, f, k, cb, outcome, patches, ret) ==
    last' = Result(op, f, k, cb, outcome, patches, ret, FALSE)

Quiet(op, f, k, cb) == Done(op, f, k, cb, "ok", <<>>, <<>>) /\ log' = <<>>

\* A registration: the method that made it, the emitter table, event field and
\* key it went to, the caller's callback, whether the emitter wrapped it as a
\* one-shot, whether the listener is the caller's callback ("cb") or the
\* closure of a value subscription ("sub"), and whether the callback calls
\* its own unsubscribe closure when an emission invokes it.
NewReg(api, table, f, k, cb, once, kind, self) ==
    [api |-> api, table |-> table, field |-> f, key |-> k, cb |-> cb,
     once |-> once, kind |-> kind, self |-> self, throws |-> FALSE,
     removes |-> 0, adds |-> FALSE, addsKey |-> NoKey, reads |-> FALSE,
     reenters |-> FALSE]

\* The registration of a callback that throws when it is invoked.
Throwing(r) == [r EXCEPT !.throws = TRUE]

\* The registration of a callback that calls the unsubscribe closure of
\* registration target (the closure is kept in a variable the callback
\* reads: the registration may be made after the callback's own), of one
\* that registers a listener, of one that reads the store and of one that
\* calls update.
Removing(r, target) == [r EXCEPT !.removes = target]
Adding(r) == [r EXCEPT !.adds = TRUE]
AddingKeyed(r, k) == [r EXCEPT !.adds = TRUE, !.addsKey = k]
Reading(r) == [r EXCEPT !.reads = TRUE]
Reentering(r) == [r EXCEPT !.reenters = TRUE]

\* Callback identities are arbitrary names: the first callback ever passed is
\* named c1, and each later one is a callback seen before or the next name.
CbChoices ==
    IF Len(info) = 0 THEN {"c1"} ELSE Callbacks

AddPlain(r) ==
    /\ Len(info) < MaxRegs
    /\ info' = Append(info, r)
    /\ plain' = [plain EXCEPT ![r.field] = Append(@, Len(info) + 1)]
    /\ UNCHANGED <<state, copy, maps, keyed, cancelled, fired>>

AddKeyed(r) ==
    /\ Len(info) < MaxRegs
    /\ info' = Append(info, r)
    /\ keyed' = [keyed EXCEPT ![r.field][r.key] = Append(@, Len(info) + 1)]
    /\ UNCHANGED <<state, copy, maps, plain, cancelled, fired>>

\* The keys a caller passes: a step that registers a keyed listener, taken
\* with a key of ks only.
OfKey(ks) == info'[Len(info')].key \in ks

\* The callbacks a caller passes: a step that registers a listener, taken with
\* a callback of cbs only.
OfCallback(cbs) == info'[Len(info')].cb \in cbs

\* Variant: the listener is put in front of the listeners of the event.
On_Prepend(fs, selfs) ==
    \E f \in fs, cb \in CbChoices, self \in selfs :
        /\ Len(info) < MaxRegs
        /\ info' = Append(info, NewReg("on", "plain", f, NoKey, cb, FALSE, "cb", self))
        /\ plain' = [plain EXCEPT ![f] = <<Len(info) + 1>> \o @]
        /\ UNCHANGED <<state, copy, maps, keyed, cancelled, fired>>
        /\ Quiet("on", f, NoKey, cb)

On(fs, selfs) ==
    \E f \in fs, cb \in CbChoices, self \in selfs :
        /\ AddPlain(NewReg("on", "plain", f, NoKey, cb, FALSE, "cb", self))
        /\ Quiet("on", f, NoKey, cb)

\* on / onKeyed with a callback that throws.
OnThrowing(fs) ==
    \E f \in fs, cb \in CbChoices :
        /\ AddPlain(Throwing(NewReg("on", "plain", f, NoKey, cb, FALSE, "cb", FALSE)))
        /\ Quiet("on", f, NoKey, cb)

OnKeyedThrowing(fs) ==
    \E f \in fs, cb \in CbChoices : \E k \in Buckets(f) :
        /\ AddKeyed(Throwing(NewReg("onKeyed", "keyed", f, k, cb, FALSE, "cb", FALSE)))
        /\ Quiet("onKeyed", f, k, cb)

\* on / onKeyed with a callback that unsubscribes another registration.
OnRemoving(fs) ==
    \E f \in fs, cb \in CbChoices, target \in (1..MaxRegs) \ {Len(info) + 1} :
        /\ AddPlain(Removing(NewReg("on", "plain", f, NoKey, cb, FALSE, "cb", FALSE),
                             target))
        /\ Quiet("on", f, NoKey, cb)

OnKeyedRemoving(fs) ==
    \E f \in fs, cb \in CbChoices, target \in (1..MaxRegs) \ {Len(info) + 1} :
        \E k \in Buckets(f) :
            /\ AddKeyed(Removing(NewReg("onKeyed", "keyed", f, k, cb, FALSE, "cb", FALSE),
                                 target))
            /\ Quiet("onKeyed", f, k, cb)

\* on / onKeyed with a callback that registers a listener for the same event.
OnAdding(fs) ==
    \E f \in fs, cb \in CbChoices :
        /\ AddPlain(Adding(NewReg("on", "plain", f, NoKey, cb, FALSE, "cb", FALSE)))
        /\ Quiet("on", f, NoKey, cb)

OnKeyedAdding(fs) ==
    \E f \in fs, cb \in CbChoices : \E k \in Buckets(f) :
        /\ AddKeyed(Adding(NewReg("onKeyed", "keyed", f, k, cb, FALSE, "cb", FALSE)))
        /\ Quiet("onKeyed", f, k, cb)

\* on with a callback that registers a keyed listener of its field.
OnAddingKeyed(fs) ==
    \E f \in fs, cb \in CbChoices : \E k \in Buckets(f) :
        /\ AddPlain(AddingKeyed(NewReg("on", "plain", f, NoKey, cb, FALSE, "cb", FALSE),
                                 k))
        /\ Quiet("on", f, NoKey, cb)

\* on with a callback that reads the store, and with one that calls update.
OnReading(fs) ==
    \E f \in fs, cb \in CbChoices :
        /\ AddPlain(Reading(NewReg("on", "plain", f, NoKey, cb, FALSE, "cb", FALSE)))
        /\ Quiet("on", f, NoKey, cb)

OnReentering(fs) ==
    \E f \in fs, cb \in CbChoices :
        /\ AddPlain(Reentering(NewReg("on", "plain", f, NoKey, cb, FALSE, "cb", FALSE)))
        /\ Quiet("on", f, NoKey, cb)

\* Variant: once delegates to the emitter's on.
Once_AsOn(fs) ==
    \E f \in fs, cb \in CbChoices :
        /\ AddPlain(NewReg("once", "plain", f, NoKey, cb, FALSE, "cb", FALSE))
        /\ Quiet("once", f, NoKey, cb)

Once(fs) ==
    \E f \in fs, cb \in CbChoices :
        /\ AddPlain(NewReg("once", "plain", f, NoKey, cb, TRUE, "cb", FALSE))
        /\ Quiet("once", f, NoKey, cb)

\* Variant: the listener is put in front of the listeners of the key.
OnKeyed_Prepend(fs, selfs) ==
    \E f \in fs, cb \in CbChoices, self \in selfs : \E k \in Buckets(f) :
        /\ Len(info) < MaxRegs
        /\ info' = Append(info, NewReg("onKeyed", "keyed", f, k, cb, FALSE, "cb", self))
        /\ keyed' = [keyed EXCEPT ![f][k] = <<Len(info) + 1>> \o @]
        /\ UNCHANGED <<state, copy, maps, plain, cancelled, fired>>
        /\ Quiet("onKeyed", f, k, cb)

OnKeyed(fs, selfs) ==
    \E f \in fs, cb \in CbChoices, self \in selfs : \E k \in Buckets(f) :
        /\ AddKeyed(NewReg("onKeyed", "keyed", f, k, cb, FALSE, "cb", self))
        /\ Quiet("onKeyed", f, k, cb)

\* Variant: onceKeyed delegates to the emitter's onKeyed.
OnceKeyed_AsOnKeyed(fs) ==
    \E f \in fs, cb \in CbChoices : \E k \in Buckets(f) :
        /\ AddKeyed(NewReg("onceKeyed", "keyed", f, k, cb, FALSE, "cb", FALSE))
        /\ Quiet("onceKeyed", f, k, cb)

OnceKeyed(fs) ==
    \E f \in fs, cb \in CbChoices : \E k \in Buckets(f) :
        /\ AddKeyed(NewReg("onceKeyed", "keyed", f, k, cb, TRUE, "cb", FALSE))
        /\ Quiet("onceKeyed", f, k, cb)

\* Variant: the subscription is registered without the immediate call.
Subscribe_NoImmediate(fs, selfs) ==
    \E f \in fs, cb \in CbChoices, self \in selfs :
        /\ AddPlain(NewReg("subscribe", "plain", f, NoKey, cb, FALSE, "sub", self))
        /\ Quiet("subscribe", f, NoKey, cb)

\* Variant: the current value is delivered by emitting the field's event
\* once the closure is registered.
Subscribe_ViaEmit(fs, selfs) ==
    \E f \in fs, cb \in CbChoices, self \in selfs :
        /\ AddPlain(NewReg("subscribe", "plain", f, NoKey, cb, FALSE, "sub", self))
        /\ Done("subscribe", f, NoKey, cb, "ok", <<>>, <<>>)
        /\ log' = [i \in 1..Len(plain'[f]) |->
                      [type |-> "call", via |-> "now", field |-> f, key |-> NoKey,
                       tok |-> plain'[f][i], cb |-> info'[plain'[f][i]].cb,
                       args |-> <<get(f)>>]]

\* A call of an entry a map does not have: a TypeError, and nothing else.
NoEntry(op, f, k, cb) ==
    /\ Done(op, f, k, cb, "threw", <<>>, <<>>)
    /\ log' = <<>>
    /\ UNCHANGED <<state, copy, maps, plain, keyed, info, cancelled, fired>>

\* Variant: an entry the map does not have is made when it is asked for.
Subscribe_OnDemand(fs, selfs) ==
    \E f \in fs, cb \in CbChoices, self \in selfs :
        IF f \in DOMAIN state
        THEN /\ Len(info) < MaxRegs
             /\ info' = Append(info, NewReg("subscribe", "plain", f, NoKey, cb, FALSE,
                                            "sub", self))
             /\ plain' = [plain EXCEPT ![f] = Append(@, Len(info) + 1)]
             /\ subscriptions' = subscriptions \cup {f}
             /\ UNCHANGED <<state, copy, keyed, cancelled, fired, keyedSubscriptions>>
             /\ Done("subscribe", f, NoKey, cb, "ok", <<>>, <<>>)
             /\ log' = <<[type |-> "call", via |-> "now", field |-> f, key |-> NoKey,
                          tok |-> Len(info) + 1, cb |-> cb, args |-> <<get(f)>>]>>
        ELSE NoEntry("subscribe", f, NoKey, cb)

\* subscriptions[key](callback)
Subscribe(fs, selfs) ==
    \E f \in fs, cb \in CbChoices, self \in selfs :
        IF f \in subscriptions
        THEN /\ AddPlain(NewReg("subscribe", "plain", f, NoKey, cb, FALSE, "sub", self))
             /\ Done("subscribe", f, NoKey, cb, "ok", <<>>, <<>>)
             /\ log' = <<[type |-> "call", via |-> "now", field |-> f, key |-> NoKey,
                          tok |-> Len(info) + 1, cb |-> cb, args |-> <<get(f)>>]>>
        ELSE NoEntry("subscribe", f, NoKey, cb)

\* Variant: the closure is registered with the emitter's on, for every
\* emission of the field's event.
KeyedSubscribe_Plain(fs, selfs) ==
    \E f \in fs, cb \in CbChoices, self \in selfs : \E k \in KeysOf(f) :
        /\ AddPlain(NewReg("keyedSubscribe", "plain", f, k, cb, FALSE, "sub", self))
        /\ Done("keyedSubscribe", f, k, cb, "ok", <<>>, <<>>)
        /\ log' = <<[type |-> "call", via |-> "now", field |-> f, key |-> k,
                     tok |-> Len(info) + 1, cb |-> cb, args |-> <<get(f)>>]>>

\* keyedSubscriptions[key](subscriptionKey)(callback)
KeyedSubscribe(fs, selfs) ==
    \E f \in fs, cb \in CbChoices, self \in selfs : \E k \in KeysOf(f) :
        IF f \in keyedSubscriptions
        THEN /\ AddKeyed(NewReg("keyedSubscribe", "keyed", f, k, cb, FALSE, "sub", self))
             /\ Done("keyedSubscribe", f, k, cb, "ok", <<>>, <<>>)
             /\ log' = <<[type |-> "call", via |-> "now", field |-> f, key |-> k,
                          tok |-> Len(info) + 1, cb |-> cb, args |-> <<get(f)>>]>>
        ELSE NoEntry("keyedSubscribe", f, k, cb)

\* off / offKeyed remove the first registration of the callback in the list.
\* A value subscription registers a closure of its own, which no caller holds.
FirstOf(list, cb) ==
    LET hits == SelectSeq(list, LAMBDA t : info[t].cb = cb /\ info[t].kind = "cb")
    IN  IF Len(hits) = 0 THEN 0 ELSE hits[1]

\* Variant: off drops every listener of the event.
Off_WholeEvent ==
    \E f \in Fields, cb \in Callbacks :
        /\ plain' = [plain EXCEPT ![f] = <<>>]
        /\ cancelled' = cancelled \cup {plain[f][i] : i \in 1..Len(plain[f])}
        /\ Quiet("off", f, NoKey, cb)
        /\ UNCHANGED <<state, copy, maps, keyed, info, fired>>

Off ==
    \E f \in Fields, cb \in Callbacks :
        LET t == FirstOf(plain[f], cb) IN
        /\ plain' = [plain EXCEPT ![f] = SeqRemove(@, t)]
        /\ cancelled' = IF t = 0 THEN cancelled ELSE cancelled \cup {t}
        /\ Quiet("off", f, NoKey, cb)
        /\ UNCHANGED <<state, copy, maps, keyed, info, fired>>

\* Variant: offKeyed removes listeners of specific keys only.
OffKeyed_SpecificOnly ==
    \E f \in Fields, cb \in Callbacks : \E k \in Buckets(f) :
        LET t == FirstOf(keyed[f][k], cb) IN
        /\ keyed' = IF k = Star THEN keyed ELSE [keyed EXCEPT ![f][k] = SeqRemove(@, t)]
        /\ cancelled' = IF t = 0 THEN cancelled ELSE cancelled \cup {t}
        /\ Quiet("offKeyed", f, k, cb)
        /\ UNCHANGED <<state, copy, maps, plain, info, fired>>

OffKeyed ==
    \E f \in Fields, cb \in Callbacks : \E k \in Buckets(f) :
        LET t == FirstOf(keyed[f][k], cb) IN
        /\ keyed' = [keyed EXCEPT ![f][k] = SeqRemove(@, t)]
        /\ cancelled' = IF t = 0 THEN cancelled ELSE cancelled \cup {t}
        /\ Quiet("offKeyed", f, k, cb)
        /\ UNCHANGED <<state, copy, maps, plain, info, fired>>

\* Variant: the closure handed back removes the first registration of its
\* callback in the list, as off and offKeyed do.
Unsubscribe_ByCallback ==
    \E t \in 1..Len(info) :
        LET r == info[t]
            hit == FirstOf(IF r.table = "plain" THEN plain[r.field]
                           ELSE keyed[r.field][r.key], r.cb)
        IN  /\ plain' = IF r.table = "plain"
                        THEN [plain EXCEPT ![r.field] = SeqRemove(@, hit)] ELSE plain
            /\ keyed' = IF r.table = "keyed"
                        THEN [keyed EXCEPT ![r.field][r.key] = SeqRemove(@, hit)] ELSE keyed
            /\ cancelled' = cancelled \cup {t}
            /\ Quiet("unsubscribe", r.field, r.key, r.cb)
            /\ UNCHANGED <<state, copy, maps, info, fired>>

\* Variant: the closure handed back removes nothing.
Unsubscribe_Nothing ==
    \E t \in 1..Len(info) :
        /\ cancelled' = cancelled \cup {t}
        /\ Quiet("unsubscribe", info[t].field, info[t].key, info[t].cb)
        /\ UNCHANGED <<state, copy, maps, plain, keyed, info, fired>>

\* A caller runs the closure a registration returned.
Unsubscribe ==
    \E t \in 1..Len(info) :
        LET m == unsubscribe(Machine, t) IN
        /\ plain' = m.plain
        /\ keyed' = m.keyed
        /\ cancelled' = m.cancelled
        /\ Quiet("unsubscribe", info[t].field, info[t].key, info[t].cb)
        /\ UNCHANGED <<state, copy, maps, info, fired>>

\* Whether the mutation function runs to its end on the state: it assigns
\* below fields that exist, or that it has assigned before.
Runs(st, mutate) ==
    \A i \in 1..Len(mutate) :
        Len(mutate[i]) >= 2 =>
            \/ mutate[i][1] \in DOMAIN st
            \/ \E j \in 1..(i - 1) : mutate[j] = <<mutate[i][1]>>

Update(mutations) ==
    \E mutate \in {mu \in mutations : Runs(state, mu)} : \E u \in {update(mutate)} :
        /\ state' = u.state
        /\ plain' = u.m.plain
        /\ keyed' = u.m.keyed
        /\ cancelled' = u.m.cancelled
        /\ fired' = u.m.fired
        /\ log' = u.m.log
        /\ last' = Result("update", "-", NoKey, NoCb, u.outcome, u.patches, u.ret,
                          u.assigned)
        /\ copy' = CopyAfter(copy, state, mutate)
        /\ UNCHANGED maps
        /\ info' = u.m.info

\* update(key, mutate) of the per-field shape.
UpdateField(fs) ==
    \E f \in fs : \E mutate \in FieldMutations(f) : \E u \in {updateField(f, mutate)} :
        /\ state' = u.state
        /\ plain' = u.m.plain
        /\ keyed' = u.m.keyed
        /\ cancelled' = u.m.cancelled
        /\ fired' = u.m.fired
        /\ log' = u.m.log
        /\ info' = u.m.info
        /\ last' = Result("updateField", f, NoKey, NoCb, u.outcome, u.patches, u.ret,
                          u.assigned)
        /\ copy' = CopyAfter(copy, state, [i \in 1..Len(mutate) |-> <<f>> \o mutate[i]])
        /\ UNCHANGED maps

\* update called with a mutation function that throws.
UpdateThrowing(mutations) ==
    \E mutate \in mutations, applied \in BOOLEAN :
        \E u \in {updateThrowing(mutate, applied)} :
            /\ state' = u.state
            /\ plain' = u.m.plain
            /\ keyed' = u.m.keyed
            /\ cancelled' = u.m.cancelled
            /\ fired' = u.m.fired
            /\ log' = u.m.log
            /\ last' = Result("updateThrowing", "-", NoKey, NoCb, u.outcome, u.patches,
                              u.ret, u.assigned)
            /\ copy' = IF applied THEN CopyAfter(copy, state, mutate) ELSE copy
            /\ UNCHANGED maps
            /\ UNCHANGED info

Get(fs) ==
    \E f \in fs :
        /\ Done("get", f, NoKey, NoCb, "ok", <<>>, <<get(f)>>)
        /\ log' = <<>>
        /\ UNCHANGED <<state, copy, maps, plain, keyed, info, cancelled, fired>>

GetState ==
    /\ copy' = getState
    /\ UNCHANGED maps
    /\ Quiet("getState", "-", NoKey, NoCb)
    /\ UNCHANGED <<state, plain, keyed, info, cancelled, fired>>

\* What a caller does with the container getState returned: assign a slot
\* (c.f = a new object), delete a slot (delete c.f), assign to a key of the
\* object a slot references (c.f.k = v).
NewObject(f) == [k \in KeysOf(f) |-> 1]

CopyAssign ==
    \E f \in Fields :
        /\ copy.held
        /\ IF copy.same
           THEN state' = [state EXCEPT ![f] = NewObject(f)] /\ copy' = copy
           ELSE state' = state /\ copy' = [copy EXCEPT !.slots[f] = Own(NewObject(f))]
        /\ Quiet("copyAssign", f, NoKey, NoCb)
        /\ UNCHANGED maps
        /\ UNCHANGED <<plain, keyed, info, cancelled, fired>>

\* The model's state has every field: a deletion is followed on containers
\* that are not the store's own.
CopyDelete ==
    \E f \in Fields :
        /\ copy.held /\ ~copy.same
        /\ copy.slots[f].ref # "absent"
        /\ copy' = [copy EXCEPT !.slots[f] = Absent]
        /\ Quiet("copyDelete", f, NoKey, NoCb)
        /\ UNCHANGED maps
        /\ UNCHANGED <<state, plain, keyed, info, cancelled, fired>>

CopyMutate ==
    \E f \in Fields : \E k \in KeysOf(f) :
        /\ copy.held
        /\ copy.slots[f].ref # "absent"
        /\ IF copy.slots[f].ref = "store"
           THEN state' = [state EXCEPT ![f][k] = Toggle(@)] /\ copy' = copy
           ELSE /\ state' = state
                /\ copy' = [copy EXCEPT !.slots[f] =
                                Own([copy.slots[f].value[1] EXCEPT ![k] = Toggle(@)])]
        /\ Quiet("copyMutate", f, k, NoCb)
        /\ UNCHANGED maps
        /\ UNCHANGED <<plain, keyed, info, cancelled, fired>>

\* createSubscribeHandlers / createKeyedSubscribeHandlers: one entry per key
\* of the state object there is when they run.
createSubscribeHandlers(st) == DOMAIN st

createKeyedSubscribeHandlers(st) == DOMAIN st

\* new ObservableStore(initial): the emitter is empty, and the two maps are
\* built from the state object passed in.
constructor(initial) ==
    /\ state = initial
    /\ plain = [f \in Fields |-> <<>>]
    /\ keyed = [f \in Fields |-> [k \in Buckets(f) |-> <<>>]]
    /\ info = <<>>
    /\ cancelled = {}
    /\ fired = {}
    /\ log = <<>>
    /\ last = Result("new", "-", NoKey, NoCb, "ok", <<>>, <<>>, TRUE)
    /\ copy = NoCopy
    /\ subscriptions = createSubscribeHandlers(initial)
    /\ keyedSubscriptions = createKeyedSubscribeHandlers(initial)

\* A store made with both fields.
Init == constructor([f \in Fields |-> [k \in KeysOf(f) |-> 0]])

\* A store made with field a only: field b is created by an update.
InitGrow == constructor([f \in {"a"} |-> [k \in KeysOf(f) |-> 0]])

\* Every operation, in any order.
Next ==
    \/ On(Fields, BOOLEAN)
    \/ Once(Fields)
    \/ OnKeyed(Fields, BOOLEAN)
    \/ OnceKeyed(Fields)
    \/ Subscribe(Fields, BOOLEAN)
    \/ KeyedSubscribe(Fields, BOOLEAN)
    \/ Off
    \/ OffKeyed
    \/ Unsubscribe
    \/ Update(Mutations)
    \/ Get(Fields)
    \/ GetState
    \/ CopyAssign
    \/ CopyDelete
    \/ CopyMutate
    \/ OnThrowing(Fields)
    \/ OnKeyedThrowing(Fields)
    \/ UpdateThrowing(Mutations)
    \/ OnRemoving(Fields)
    \/ OnKeyedRemoving(Fields)
    \/ OnAdding(Fields)
    \/ OnKeyedAdding(Fields)
    \/ OnAddingKeyed(Fields)
    \/ OnReading(Fields)
    \/ OnReentering({"a"})
    \/ UpdateField(Fields)

Spec == Init /\ [][Next]_vars

\* The families of operations the claims are checked under. Each takes the
\* operations a claim is about, with the fields, keys and paths its cases
\* need: field a has two keys, field b has one.

\* Routing of the plain events: listeners on both fields, keyed listeners on
\* field b only, updates of a property below a.k1 and of b.k1.
NextRoute ==
    \/ On(Fields, {FALSE})
    \/ OnKeyed({"b"}, {FALSE})
    \/ Update(MutationsOver({<<"a", "k1", Leaf>>, <<"b", "k1">>}))

SpecRoute == Init /\ [][NextRoute]_vars

\* Listeners of specific keys on both fields, updates of the key k1 of each.
NextKeyOf ==
    \/ OnKeyed(Fields, {FALSE}) /\ OfKey(Keys)
    \/ Update(MutationsOver({<<"a", "k1">>, <<"b", "k1">>}))

SpecKeyOf == Init /\ [][NextKeyOf]_vars

\* Keyed and wildcard listeners of field a, updates of its two keys.
NextKeys ==
    \/ OnKeyed({"a"}, {FALSE})
    \/ Update(MutationsOver({<<"a", "k1">>, <<"a", "k2">>}))

SpecKeys == Init /\ [][NextKeys]_vars

\* Order of dispatch: wildcard listeners on both fields, updates of the keys
\* of both fields.
NextOrder ==
    \/ OnKeyed(Fields, {FALSE}) /\ OfKey({Star})
    \/ Update(MutationsOver(KeyPaths))

SpecOrder == Init /\ [][NextOrder]_vars

\* Edits of the root: listeners of field b, updates of b.k1 and of the root.
NextRoot ==
    \/ On({"b"}, {FALSE})
    \/ OnKeyed({"b"}, {FALSE})
    \/ Update(MutationsOver({<<"b", "k1">>, <<>>}))

SpecRoot == Init /\ [][NextRoot]_vars

\* Edits of a field's slot: listeners of field b, updates of b and of b.k1.
NextSlot ==
    \/ On({"b"}, {FALSE})
    \/ OnKeyed({"b"}, {FALSE})
    \/ Update(MutationsOver({<<"b">>, <<"b", "k1">>}))

SpecSlot == Init /\ [][NextSlot]_vars

\* One-shot listeners of field b's event, their unsubscribe closures, and
\* updates of b.k1.
NextOnce ==
    \/ Once({"b"})
    \/ OnceKeyed({"b"})
    \/ Unsubscribe
    \/ Update(MutationsOver({<<"b", "k1">>}))

SpecOnce == Init /\ [][NextOnce]_vars

\* One-shot wildcard listeners of field a's event, their unsubscribe
\* closures, and updates of the two keys of a.
NextFirst ==
    \/ OnceKeyed({"a"}) /\ OfKey({Star})
    \/ Unsubscribe
    \/ Update(MutationsOver({<<"a", "k1">>, <<"a", "k2">>}))

SpecFirst == Init /\ [][NextFirst]_vars

\* Removal by callback identity from field b's event.
NextOff ==
    \/ On({"b"}, {FALSE})
    \/ OnKeyed({"b"}, {FALSE})
    \/ Off
    \/ OffKeyed
    \/ Update(MutationsOver({<<"b", "k1">>}))

SpecOff == Init /\ [][NextOff]_vars

\* Unsubscribe closures of the four registrations that return one, on field
\* b: run by the callback itself (on, subscriptions.b) or by the caller.
NextUnsub ==
    \/ On({"b"}, {TRUE})
    \/ OnKeyed({"b"}, {FALSE})
    \/ Subscribe({"b"}, {TRUE})
    \/ KeyedSubscribe({"b"}, {FALSE})
    \/ Unsubscribe
    \/ Update(MutationsOver({<<"b", "k1">>}))

SpecUnsub == Init /\ [][NextUnsub]_vars

\* Value subscriptions of both fields, and updates of a key of each.
NextSub ==
    \/ Subscribe(Fields, {FALSE})
    \/ Unsubscribe
    \/ Update(MutationsOver({<<"a", "k1">>, <<"b", "k1">>}))

SpecSub == Init /\ [][NextSub]_vars

\* Value subscriptions of the keys of field a, and updates of its two keys.
NextKeyedSub ==
    \/ KeyedSubscribe({"a"}, {FALSE})
    \/ Unsubscribe
    \/ Update(MutationsOver({<<"a", "k1">>, <<"a", "k2">>}))

SpecKeyedSub == Init /\ [][NextKeyedSub]_vars

\* Reads of the store, and what a caller does with the object getState
\* returned, between updates of the root, of a.k1 and of field b.
NextCopy ==
    \/ Get(Fields)
    \/ GetState
    \/ CopyAssign
    \/ CopyDelete
    \/ CopyMutate
    \/ Update(MutationsOver({<<>>, <<"a", "k1">>, <<"b">>}))

SpecCopy == Init /\ [][NextCopy]_vars

\* Mutation functions that throw, with listeners of field b registered.
NextFail ==
    \/ On({"b"}, {FALSE})
    \/ OnKeyed({"b"}, {FALSE})
    \/ Update(MutationsOver({<<"b", "k1">>}))
    \/ UpdateThrowing(MutationsOver({<<"b", "k1">>}))

SpecFail == Init /\ [][NextFail]_vars

\* Listeners of field b that throw, beside listeners of both fields that do
\* not, and updates of b.k1 and a.k1.
NextThrow ==
    \/ On(Fields, {FALSE})
    \/ OnThrowing({"b"})
    \/ OnKeyedThrowing({"b"})
    \/ Update(MutationsOver({<<"b", "k1">>, <<"a", "k1">>}))

SpecThrow == Init /\ [][NextThrow]_vars

\* Updates that throw after the Producer returned, because of an edit of the
\* root or of a listener that throws, and reads of the store.
NextKept ==
    \/ On({"a"}, {FALSE})
    \/ OnThrowing({"a"})
    \/ Update(MutationsOver({<<>>, <<"a", "k1">>, <<"b", "k1">>}))
    \/ Get(Fields)

SpecKept == Init /\ [][NextKept]_vars

\* Every way of removing a plain listener of field b's event, used in any
\* order and any number of times.
NextIdem ==
    \/ On({"b"}, {FALSE})
    \/ Once({"b"})
    \/ Unsubscribe
    \/ Off
    \/ OffKeyed
    \/ Update(MutationsOver({<<"b", "k1">>}))

SpecIdem == Init /\ [][NextIdem]_vars

\* Listeners of field b's event that change the listener table while they
\* run: they unsubscribe themselves or another listener, or register one.
NextSnap ==
    \/ On({"b"}, {TRUE})
    \/ OnRemoving({"b"})
    \/ OnAdding({"b"})
    \/ OnKeyed({"b"}, {FALSE}) /\ OfKey({Star})
    \/ Update(MutationsOver({<<"b", "k1">>}))

SpecSnap == Init /\ [][NextSnap]_vars

\* Wildcard listeners of field a's event that are removed while an update of
\* two keys is dispatched: by another listener, or as one-shot listeners.
NextPass ==
    \/ OnKeyed({"a"}, {FALSE}) /\ OfKey({Star})
    \/ OnKeyedRemoving({"a"}) /\ OfKey({Star})
    \/ OnceKeyed({"a"}) /\ OfKey({Star})
    \/ Update(MutationsOver({<<"a", "k1">>, <<"a", "k2">>}))

SpecPass == Init /\ [][NextPass]_vars

\* Listeners that read the store or call update while they run: readers on
\* both fields, listeners of field a's event that update field b.
NextReent ==
    \/ OnReading(Fields)
    \/ OnReentering({"a"})
    \/ Update(MutationsOver({<<"a", "k1">>, <<"b", "k1">>}))

SpecReent == Init /\ [][NextReent]_vars

\* Keyed listeners of field b's event and the three ways they go: their
\* unsubscribe closure, offKeyed, and a one-shot listener's first invocation.
NextLast ==
    \/ OnKeyed({"b"}, {FALSE}) /\ OfKey({Star})
    \/ OnceKeyed({"b"}) /\ OfKey({"k1"})
    \/ Unsubscribe
    \/ OffKeyed
    \/ Update(MutationsOver({<<"b", "k1">>}))

SpecLast == Init /\ [][NextLast]_vars

\* The two shapes of update side by side: listeners of field a's event,
\* updates of field a through update(key, mutate) and through update(mutate).
NextShapes ==
    \/ On({"a"}, {FALSE})
    \/ OnKeyed({"a"}, {FALSE}) /\ OfKey({Star})
    \/ UpdateField({"a"})
    \/ Update(MutationsOver({<<"a", "k1">>}))

SpecShapes == Init /\ [][NextShapes]_vars

\* Every operation but the updates of listeners' making, on field b, with
\* one callback: reads, registrations of all kinds, removals by callback,
\* value subscriptions, and updates of b.k1 that give the state something to
\* lose.
NextFrame ==
    \/ Get({"b"})
    \/ GetState
    \/ On({"b"}, {FALSE}) /\ OfCallback({"c1"})
    \/ Once({"b"}) /\ OfCallback({"c1"})
    \/ OnKeyed({"b"}, {FALSE}) /\ OfKey({Star}) /\ OfCallback({"c1"})
    \/ OnceKeyed({"b"}) /\ OfKey({"k1"}) /\ OfCallback({"c1"})
    \/ Off
    \/ OffKeyed
    \/ Subscribe({"b"}, {FALSE}) /\ OfCallback({"c2"})
    \/ KeyedSubscribe({"b"}, {FALSE}) /\ OfCallback({"c2"})
    \/ Update(MutationsOver({<<"b", "k1">>}))

SpecFrame == Init /\ [][NextFrame]_vars

\* Plain listeners that change the keyed listeners of field b: one that
\* registers a keyed listener and one that unsubscribes another registration.
NextLate ==
    \/ OnKeyed({"b"}, {FALSE})
    \/ OnAddingKeyed({"b"})
    \/ OnRemoving({"b"})
    \/ Update(MutationsOver({<<"b", "k1">>}))

SpecLate == Init /\ [][NextLate]_vars

\* Listeners of field a's event that update field b while they run, beside
\* keyed listeners and value subscriptions of b that see both updates.
NextNest ==
    \/ OnReentering({"a"})
    \/ OnKeyed({"b"}, {FALSE})
    \/ Subscribe({"b"}, {FALSE})
    \/ Update(MutationsOver({<<"a", "k1">>, <<"b", "k1">>}))

SpecNest == Init /\ [][NextNest]_vars

\* A store made without field b: listeners of b, value subscriptions of both
\* fields, updates that create b and change its key.
NextGrow ==
    \/ On({"b"}, {FALSE})
    \/ OnKeyed({"b"}, {FALSE})
    \/ Subscribe(Fields, {FALSE})
    \/ KeyedSubscribe({"b"}, {FALSE})
    \/ Update(MutationsOver({<<"b">>, <<"b", "k1">>}))

SpecGrow == InitGrow /\ [][NextGrow]_vars

\* ------------------------------------------------------------- observations
\* What a state shows of the last operation. The edit group of a field is
\* defined here from the Producer's list alone, not from the grouping code.
Returned == last.op = "update" /\ last.outcome = "ok"

GroupOf(f) == SelectSeq(last.patches, LAMBDA e : Len(e.path) > 0 /\ e.path[1] = f)

Touched(f) == Len(GroupOf(f)) > 0

\* The distinct second path segments of a field's edits.
SecondKeys(f) ==
    {GroupOf(f)[i].path[2] : i \in {j \in 1..Len(GroupOf(f)) : Len(GroupOf(f)[j].path) >= 2}}

Calls == SelectSeq(log, LAMBDA e : e.type = "call")

CallsOf(t) == SelectSeq(log, LAMBDA e : e.type = "call" /\ e.tok = t)

Steps(type, f) == SelectSeq(log, LAMBDA e : e.type = type /\ e.field = f)

Tokens == 1..Len(info)

PlainRegs(f) == {plain[f][i] : i \in 1..Len(plain[f])}

KeyedRegs(f, k) == {keyed[f][k][i] : i \in 1..Len(keyed[f][k])}

AllRegs ==
    UNION {PlainRegs(f) : f \in Fields}
        \cup UNION {UNION {KeyedRegs(f, k) : k \in Buckets(f)} : f \in Fields}

\* ------------------------------------------------------------------- claims

\* C1: an update that returns invokes every plain listener registered on
\* '<F>:updated' before the call exactly once when the Producer's edit list
\* holds an edit whose first path segment is F, and not at all otherwise; an
\* update with no edits invokes no listener at all.
C1_PlainOncePerTouchedField ==
    [][Returned' =>
        /\ \A f \in Fields : \A t \in PlainRegs(f) :
              Len(CallsOf(t)') = IF Touched(f)' THEN 1 ELSE 0
        /\ (last'.patches = <<>> => Calls' = <<>>)]_vars

C1_Witness ==
    /\ Returned
    /\ Touched("a") /\ ~Touched("b")
    /\ \E t \in PlainRegs("a") : Len(CallsOf(t)) = 1
    /\ \E t \in PlainRegs("b") : Len(CallsOf(t)) = 0

C3_KeyedOncePerChangedKey ==
    [][Returned' =>
        \A f \in Fields : \A k \in KeysOf(f) : \A t \in KeyedRegs(f, k) :
            Len(CallsOf(t)') = IF k \in SecondKeys(f)' THEN 1 ELSE 0]_vars

C3_Witness ==
    /\ Returned
    /\ Len(GroupOf("a")) = 2
    /\ \A i \in 1..2 : Len(GroupOf("a")[i].path) >= 2 /\ GroupOf("a")[i].path[2] = "k1"
    /\ \E t \in KeyedRegs("a", "k1") : Len(CallsOf(t)) = 1
    /\ \E t \in KeyedRegs("b", "k1") : Len(CallsOf(t)) = 0

\* C4: a wildcard listener registered with onKeyed('<F>:updated', '*', cb) is
\* invoked once per distinct second path segment among F's edits, not once
\* per edit, each time with that key as first argument and F's edit group
\* as second argument.
C4_WildcardOncePerDistinctKey ==
    [][Returned' =>
        \A f \in Fields : \A t \in KeyedRegs(f, Star) :
            /\ Len(CallsOf(t)') = Cardinality(SecondKeys(f)')
            /\ {CallsOf(t)'[i].args[1] : i \in 1..Len(CallsOf(t)')} = SecondKeys(f)'
            /\ \A i \in 1..Len(CallsOf(t)') :
                  /\ Len(CallsOf(t)'[i].args) = 2
                  /\ CallsOf(t)'[i].args[2] = GroupOf(f)']_vars

C4_Witness ==
    /\ Returned
    /\ Len(GroupOf("a")) = 2
    /\ SecondKeys("a") = {"k1"}
    /\ \E t \in KeyedRegs("a", Star) :
          /\ Len(CallsOf(t)) = 1
          /\ CallsOf(t)[1].args = <<"k1", GroupOf("a")>>

\* C5: every keyed callback, for a specific key or the wildcard, receives
\* the field's full edit group: all edits of the field in the Producer's
\* order, those under other keys included.
C5_KeyedGetsFullGroup ==
    Returned =>
        \A i \in 1..Len(log) :
            (log[i].type = "call" /\ log[i].via \in {"key", "wild"}
                /\ info[log[i].tok].kind = "cb")
            => log[i].args[Len(log[i].args)] = GroupOf(log[i].field)

C5_Witness ==
    /\ Returned
    /\ SecondKeys("a") = {"k1", "k2"}
    /\ \E i \in 1..Len(log) :
          /\ log[i].type = "call" /\ log[i].via = "key" /\ log[i].key = "k1"
          /\ Len(log[i].args[1]) = 2
          /\ log[i].args[1][1].path[2] = "k2"

\* Whether the event of a field has a keyed listener, specific or wildcard.
HasKeyed(f) == \E k \in Buckets(f) : KeyedRegs(f, k) # {}

\* C6: when the event of a field has no keyed listener, specific or
\* wildcard, the update extracts no second segments and calls no emitKeyed
\* for it, and still emits its plain event; when it has one, the plain event
\* and one keyed event per changed key are both emitted.
C6_NoKeyedWorkWithoutKeyedListeners ==
    [][Returned' =>
        \A f \in Fields :
            /\ Len(Steps("emit", f)') = IF Touched(f)' THEN 1 ELSE 0
            /\ ~HasKeyed(f) =>
                  /\ Steps("extract", f)' = <<>>
                  /\ Steps("emitKeyed", f)' = <<>>
            /\ (HasKeyed(f) /\ Touched(f)') =>
                  /\ Len(Steps("extract", f)') = 1
                  /\ Len(Steps("emitKeyed", f)') = Cardinality(SecondKeys(f)')]_vars

C6_Witness ==
    /\ Returned
    /\ ~HasKeyed("a") /\ PlainRegs("a") # {} /\ SecondKeys("a") # {}
    /\ Len(Steps("emit", "a")) = 1
    /\ Steps("extract", "a") = <<>> /\ Steps("emitKeyed", "a") = <<>>
    /\ HasKeyed("b") /\ SecondKeys("b") # {}
    /\ Len(Steps("emit", "b")) = 1 /\ Len(Steps("emitKeyed", "b")) = 1

\* Whether the last update emitted the event, and the key, a registration
\* listens to.
Matches(t) ==
    IF info[t].table = "plain" THEN Touched(info[t].field)
    ELSE IF info[t].key = Star THEN SecondKeys(info[t].field) # {}
    ELSE info[t].key \in SecondKeys(info[t].field)

\* How often the last update emitted the event, and the key, a registration
\* listens to: a wildcard registration hears one keyed event per changed key.
Emissions(t) ==
    IF info[t].table = "keyed" /\ info[t].key = Star
    THEN Cardinality(SecondKeys(info[t].field))
    ELSE IF Matches(t) THEN 1 ELSE 0

OneShots == {t \in Tokens : info[t].api \in {"once", "onceKeyed"}}

\* C7: a callback registered with once or onceKeyed is invoked exactly once
\* over any sequence of updates: by the first update that emits its event
\* (and key), which removes it for good; and never when its unsubscribe
\* closure ran before that emission.
C7_OneShotFiresOnce ==
    [][\A t \in OneShots :
        /\ t \in AllRegs => t \notin fired /\ t \notin cancelled
        /\ t \notin AllRegs => t \notin AllRegs'
        /\ Returned' =>
              /\ Len(CallsOf(t)') = IF t \in AllRegs /\ Matches(t)' THEN 1 ELSE 0
              /\ (t \in AllRegs /\ Matches(t)') => (t \notin AllRegs' /\ t \in fired')
              /\ (t \in cancelled /\ t \notin fired) => t \notin fired']_vars

C7_Witness ==
    /\ Returned
    /\ \E t1, t2 \in OneShots :
          /\ t1 \in fired /\ Matches(t1)
          /\ t2 \in cancelled /\ t2 \notin fired /\ Matches(t2)
          /\ info[t2].api = "onceKeyed" /\ info[t2].key = Star
          /\ Calls = <<>>

\* The registrations of a callback in a list.
RegsOfCb(list, cb) == {list[i] : i \in {j \in 1..Len(list) : info[list[j]].cb = cb}}

\* The list an off / offKeyed call names, before and after the call.
OffList(pl, ky, l) == IF l.op = "off" THEN pl[l.field] ELSE ky[l.field][l.key]

\* C8: off(event, cb) and offKeyed(event, key, cb) remove the registration of
\* the passed callback and nothing else: the other registrations of that
\* list keep their order, every other list is untouched, the removed
\* callback is invoked by no later update, and every callback still
\* registered is invoked once per emission of its event (and key).
C8_OffRemovesExactlyTheCallback ==
    [][/\ last'.op \in {"off", "offKeyed"} =>
            LET before == OffList(plain, keyed, last')
                after == OffList(plain', keyed', last')
                hit == RegsOfCb(before, last'.cb)
            IN  /\ Cardinality(hit) <= 1 =>
                      /\ after = SelectSeq(before, LAMBDA t : t \notin hit)
                      /\ RegsOfCb(after, last'.cb) = {}
                      /\ cancelled' = cancelled \cup hit
                /\ AllRegs \ AllRegs' \subseteq RegsOfCb(before, last'.cb)
                /\ Cardinality(AllRegs \ AllRegs') <= 1
                /\ AllRegs' \subseteq AllRegs
       /\ Returned' =>
            \A t \in Tokens :
                Len(CallsOf(t)') = IF t \notin cancelled THEN Emissions(t)' ELSE 0]_vars

C8_Witness ==
    /\ Returned
    /\ \E t1, t2 \in Tokens :
          /\ info[t1].field = info[t2].field /\ info[t1].key = info[t2].key
          /\ info[t1].table = "keyed" /\ info[t2].table = "keyed"
          /\ info[t1].cb # info[t2].cb
          /\ t1 \in cancelled /\ Matches(t1) /\ CallsOf(t1) = <<>>
          /\ t2 \in AllRegs /\ Len(CallsOf(t2)) = 1

\* C9: once the unsubscribe closure returned by on, onKeyed,
\* subscriptions.<field> or keyedSubscriptions.<field>(key) has run, called
\* by the caller between updates or by the callback itself during an
\* emission, no later update invokes that callback's registration.
C9_UnsubscribedNeverInvoked ==
    [][/\ last'.op = "unsubscribe" =>
            \E t \in Tokens :
                /\ cancelled' = cancelled \cup {t}
                /\ AllRegs' = AllRegs \ {t}
       /\ Returned' =>
            /\ \A t \in cancelled : CallsOf(t)' = <<>> /\ t \notin AllRegs'
            /\ \A t \in Tokens :
                  (info[t].self /\ Len(CallsOf(t)') > 0) =>
                      (t \in cancelled' /\ t \notin AllRegs')]_vars

C9_Witness ==
    /\ Returned
    /\ \E t1, t2 \in Tokens :
          /\ info[t1].api = "subscribe" /\ info[t1].self
          /\ info[t2].api = "onKeyed" /\ ~info[t2].self
          /\ t1 \in cancelled /\ t2 \in cancelled
          /\ Matches(t1) /\ Matches(t2)
          /\ Calls = <<>>

\* C10: subscriptions.<F>(cb) invokes cb once, at registration, with get(F);
\* afterwards an update invokes it exactly once when it touches field F and
\* not at all when it touches only other fields.
C10_SubscribeImmediateThenPerUpdate ==
    [][/\ last'.op = "subscribe" =>
            /\ Len(log') = 1
            /\ log'[1].type = "call"
            /\ log'[1].tok = Len(info')
            /\ log'[1].cb = last'.cb
            /\ log'[1].args = <<state[last'.field]>>
            /\ info'[Len(info')].field = last'.field
       /\ Returned' =>
            \A t \in Tokens :
                (info[t].api = "subscribe" /\ t \in AllRegs) =>
                    Len(CallsOf(t)') = IF Touched(info[t].field)' THEN 1 ELSE 0]_vars

C10_Witness ==
    /\ Returned
    /\ Touched("a") /\ ~Touched("b")
    /\ \E t1, t2 \in Tokens :
          /\ info[t1].api = "subscribe" /\ info[t1].field = "a"
          /\ info[t2].api = "subscribe" /\ info[t2].field = "b"
          /\ t1 \in AllRegs /\ t2 \in AllRegs
          /\ Len(CallsOf(t1)) = 1 /\ CallsOf(t2) = <<>>

\* C11: an update that touches field F invokes a callback subscribed with
\* subscriptions.<F> once, with the value get(F) has after the update (the
\* field's value in the new state) as its only argument, not with the edit
\* list; so successive updates show it the successive values, in order.
C11_SubscriptionGetsCurrentValue ==
    [][Returned' =>
        \A t \in Tokens :
            (info[t].api = "subscribe" /\ t \in AllRegs /\ Touched(info[t].field)') =>
                /\ Len(CallsOf(t)') = 1
                /\ CallsOf(t)'[1].args = <<state'[info[t].field]>>
                /\ CallsOf(t)'[1].cb = info[t].cb]_vars

C11_Witness ==
    /\ Returned
    /\ Len(last.patches) = 1 /\ last.patches[1].path = <<"a", "k1">>
    /\ state["a"]["k1"] = 1
    /\ \E t \in Tokens :
          /\ info[t].api = "subscribe" /\ info[t].field = "a"
          /\ Len(CallsOf(t)) = 1
          /\ CallsOf(t)[1].args = <<state["a"]>>

\* C12: keyedSubscriptions.<F>(K)(cb) invokes cb once, at registration, with
\* the whole current value of field F; afterwards an update invokes it
\* exactly once when an edit of F has K as its second path segment, and not
\* at all when the edits of F are under other keys only.
C12_KeyedSubscribeImmediateThenPerKey ==
    [][/\ last'.op = "keyedSubscribe" =>
            /\ Len(log') = 1
            /\ log'[1].type = "call"
            /\ log'[1].tok = Len(info')
            /\ log'[1].cb = last'.cb
            /\ log'[1].args = <<state[last'.field]>>
            /\ info'[Len(info')].field = last'.field
            /\ info'[Len(info')].key = last'.key
            /\ Contains(keyed'[last'.field][last'.key], Len(info'))
       /\ Returned' =>
            \A t \in Tokens :
                (info[t].api = "keyedSubscribe" /\ t \in AllRegs) =>
                    /\ Len(CallsOf(t)') =
                          IF info[t].key \in SecondKeys(info[t].field)' THEN 1 ELSE 0
                    /\ \A i \in 1..Len(CallsOf(t)') :
                          CallsOf(t)'[i].args = <<state'[info[t].field]>>]_vars

C12_Witness ==
    /\ Returned
    /\ SecondKeys("a") = {"k2"}
    /\ \E t1, t2 \in Tokens :
          /\ info[t1].api = "keyedSubscribe" /\ info[t1].key = "k1"
          /\ info[t2].api = "keyedSubscribe" /\ info[t2].key = "k2"
          /\ t1 \in AllRegs /\ t2 \in AllRegs
          /\ CallsOf(t1) = <<>>
          /\ Len(CallsOf(t2)) = 1 /\ CallsOf(t2)[1].args = <<state["a"]>>

\* C13: after any sequence of updates, every slot of the object getState
\* returns reads as what get returns for that field; a get(F) followed at
\* once by getState returned the value the F slot of the result holds.
C13_GetEqualsGetStateSlot ==
    [][/\ last'.op = "getState" =>
            \A f \in Fields : DerefIn(copy', state', f) = <<state'[f]>>
       /\ (last.op = "get" /\ last'.op = "getState") =>
            DerefIn(copy', state', last.field) = last.ret]_vars

C13_Witness ==
    /\ last.op = "getState"
    /\ state["a"]["k1"] = 1 /\ state["a"]["k2"] = 0 /\ state["b"]["k1"] = 1
    /\ \A f \in Fields : DerefIn(copy, state, f) = <<get(f)>>

C15_CopyValueMutationNotSeen ==
    [][last'.op = "copyMutate" => state'[last'.field] = state[last'.field]]_vars

HasEmptyPath(patches) == \E i \in 1..Len(patches) : Len(patches[i].path) = 0

\* C16: when the Producer's edit list holds an edit with an empty path,
\* update throws and returns nothing, and it throws before any event is
\* emitted: no listener of any field is invoked, not even those of fields
\* whose edits come before the offending edit, and no registration changes.
C16_EmptyPathFailsFast ==
    [][(last'.op = "update" /\ HasEmptyPath(last'.patches)) =>
          /\ last'.outcome = "threw"
          /\ last'.ret = <<>>
          /\ log' = <<>>
          /\ plain' = plain /\ keyed' = keyed
          /\ fired' = fired /\ cancelled' = cancelled]_vars

C16_Witness ==
    /\ last.op = "update" /\ last.outcome = "threw"
    /\ Len(last.patches) = 2
    /\ last.patches[1].path = <<"b", "k1">> /\ last.patches[2].path = <<>>
    /\ PlainRegs("b") # {} /\ KeyedRegs("b", "k1") # {}
    /\ log = <<>>

\* C17: when the mutation function (or the Producer running it) throws,
\* update ends with that error and returns nothing, invokes no listener,
\* changes no registration, and does not assign this.state.
C17_CreateErrorPropagates ==
    [][last'.op = "updateThrowing" =>
          /\ last'.outcome = "createThrew"
          /\ last'.ret = <<>>
          /\ ~last'.assigned
          /\ log' = <<>>
          /\ plain' = plain /\ keyed' = keyed
          /\ fired' = fired /\ cancelled' = cancelled]_vars

C17_Witness ==
    /\ last.op = "updateThrowing" /\ last.outcome = "createThrew"
    /\ ~last.assigned
    /\ PlainRegs("b") # {} /\ KeyedRegs("b", "k1") # {}
    /\ state["b"]["k1"] = 1
    /\ log = <<>>

\* The calls the last operation made to listeners that throw.
ThrowingCalls == SelectSeq(log, LAMBDA e : e.type = "call" /\ info[e.tok].throws)

\* C18: when a listener throws during the dispatch of an update, the error
\* leaves update, which returns nothing, and the call of that listener is
\* the last thing the update does: no listener that was still to come is
\* invoked, be it of the same event, a keyed listener of that field, or a
\* listener of a field that comes later; and an update that emits the event
\* (and key) of a throwing listener does end with an error.
C18_ListenerErrorAborts ==
    [][last'.op = "update" =>
          /\ (last'.outcome = "listenerThrew") <=> (ThrowingCalls' # <<>>)
          /\ ThrowingCalls' # <<>> =>
                /\ Len(ThrowingCalls') = 1
                /\ log'[Len(log')] = ThrowingCalls'[1]
                /\ last'.ret = <<>>
          /\ (\E t \in AllRegs : info[t].throws /\ Matches(t)') =>
                last'.outcome = "listenerThrew"]_vars

C18_Witness ==
    /\ last.op = "update" /\ last.outcome = "listenerThrew"
    /\ Len(last.patches) = 2
    /\ last.patches[1].path = <<"b", "k1">> /\ last.patches[2].path = <<"a", "k1">>
    /\ \E t1 \in PlainRegs("b"), t2 \in PlainRegs("a") :
          /\ info[t1].throws /\ ~info[t2].throws
          /\ Len(log) = 2 /\ log[1].type = "emit" /\ log[2].tok = t1
          /\ CallsOf(t2) = <<>>

\* The edits of a list whose first path segment is f.
EditsOf(list, f) == SelectSeq(list, LAMBDA e : Len(e.path) > 0 /\ e.path[1] = f)

PlainCalls(f) ==
    SelectSeq(log, LAMBDA e : e.type = "call" /\ e.via = "plain" /\ e.field = f)

\* C20: the emission of a field's event by an update invokes every plain
\* listener registered for it before the call exactly once, in the order in
\* which they were registered (registrations are numbered in that order),
\* each with the same edit group, so that several subscribers of one event
\* all receive the emission.
C20_EmitAllPlainInOrder ==
    [][Returned' =>
        \A f \in Fields :
            Touched(f)' =>
                /\ Len(PlainCalls(f)') = Cardinality(PlainRegs(f))
                /\ {PlainCalls(f)'[i].tok : i \in 1..Len(PlainCalls(f)')} = PlainRegs(f)
                /\ \A i, j \in 1..Len(PlainCalls(f)') :
                      i < j => PlainCalls(f)'[i].tok < PlainCalls(f)'[j].tok
                /\ \A i \in 1..Len(PlainCalls(f)') :
                      PlainCalls(f)'[i].args = <<GroupOf(f)'>>]_vars

C20_Witness ==
    /\ Returned
    /\ Len(GroupOf("a")) = 2
    /\ plain["a"] = <<1, 2>>
    /\ info[1].cb # info[2].cb
    /\ Len(PlainCalls("a")) = 2
    /\ PlainCalls("a")[1].tok = 1 /\ PlainCalls("a")[2].tok = 2
    /\ PlainCalls("a")[1].args = PlainCalls("a")[2].args

\* The calls the last operation made for the keyed event of key k of field
\* f, in order.
KeyedCalls(f, k) ==
    SelectSeq(log, LAMBDA e : e.type = "call" /\ e.field = f /\ e.key = k
                                /\ e.via \in {"key", "wild"})

\* Whether a sequence of registrations is in the order of registration.
Ascending(toks) == \A i, j \in 1..Len(toks) : i < j => toks[i] < toks[j]

\* C21: for each changed key of a field an update that returns invokes first
\* every listener registered for exactly that key, in registration order,
\* each with the edits, and then every wildcard listener of the event, in
\* registration order, each with the key and the edits; a listener of the
\* key and a wildcard listener are both invoked by the same update.
C21_ExactKeyThenWildcard ==
    [][Returned' =>
        \A f \in Fields : \A k \in KeysOf(f) :
            LET calls == KeyedCalls(f, k)'
                toks == [i \in 1..Len(calls) |-> calls[i].tok]
                exact == Len(keyed[f][k])
            IN  IF k \in SecondKeys(f)'
                THEN /\ Len(calls) = exact + Len(keyed[f][Star])
                     /\ {toks[i] : i \in 1..exact} = KeyedRegs(f, k)
                     /\ {toks[i] : i \in (exact + 1)..Len(calls)} = KeyedRegs(f, Star)
                     /\ Ascending(SubSeq(toks, 1, exact))
                     /\ Ascending(SubSeq(toks, exact + 1, Len(calls)))
                     /\ \A i \in 1..Len(calls) :
                           IF i <= exact
                           THEN calls[i].via = "key" /\ calls[i].args = <<GroupOf(f)'>>
                           ELSE calls[i].via = "wild" /\ calls[i].args = <<k, GroupOf(f)'>>
                ELSE calls = <<>>]_vars

C21_Witness ==
    /\ Returned
    /\ SecondKeys("a") = {"k1", "k2"}
    /\ keyed["a"][Star] = <<1>> /\ keyed["a"]["k1"] = <<2>>
    /\ Len(KeyedCalls("a", "k1")) = 2
    /\ KeyedCalls("a", "k1")[1].tok = 2 /\ KeyedCalls("a", "k1")[1].via = "key"
    /\ KeyedCalls("a", "k1")[2].tok = 1 /\ KeyedCalls("a", "k1")[2].via = "wild"
    /\ KeyedCalls("a", "k1")[2].args = <<"k1", GroupOf("a")>>
    /\ Len(KeyedCalls("a", "k2")) = 1

\* The registrations whose unsubscribe closure a step ran for the first time.
NewlyCancelled(before, after) == after \ before

\* C22: running an unsubscribe closure, off or offKeyed never fails and never
\* invokes a listener. A closure removes the registration it was returned
\* for and no other: run a second time, or after its one-shot listener has
\* fired, it removes nothing, not even another registration of the same
\* callback on the same event. off / offKeyed with a callback that is not
\* registered on the named list removes nothing.
C22_UnsubscribeIdempotentExact ==
    [][/\ last'.op \in {"unsubscribe", "off", "offKeyed"} =>
            /\ last'.outcome = "ok"
            /\ log' = <<>>
            /\ state' = state
            /\ AllRegs' \subseteq AllRegs
       /\ last'.op = "unsubscribe" =>
            /\ AllRegs \ AllRegs' = NewlyCancelled(cancelled, cancelled') \cap AllRegs
            /\ \A f \in Fields :
                  /\ plain'[f] = SelectSeq(plain[f], LAMBDA t : t \in AllRegs')
                  /\ \A k \in Buckets(f) :
                        keyed'[f][k] = SelectSeq(keyed[f][k], LAMBDA t : t \in AllRegs')
       /\ (last'.op \in {"off", "offKeyed"}
              /\ RegsOfCb(OffList(plain, keyed, last'), last'.cb) = {}) =>
            /\ plain' = plain /\ keyed' = keyed
            /\ cancelled' = cancelled]_vars

C22_Witness ==
    /\ last.op = "unsubscribe"
    /\ \E t1, t2 \in Tokens :
          /\ t1 # t2
          /\ info[t1].api = "once" /\ info[t2].api = "on"
          /\ info[t1].cb = info[t2].cb /\ info[t1].field = info[t2].field
          /\ last.cb = info[t1].cb
          /\ t1 \in fired /\ t1 \in cancelled
          /\ t2 \in AllRegs /\ t2 \notin cancelled

\* ----------------------------------------------------------------- C23
\* The listener table as an observer of the callbacks reconstructs it: the
\* table reg with the effect of one line of the record applied. A call of
\* a one-shot listener or of a callback that unsubscribes itself removes
\* it, a call of a callback that unsubscribes another registration removes
\* that one, and an "add" line appends the registration it names.
TableDrop(reg, inf, t) ==
    IF t = 0 \/ t > Len(inf) THEN reg
    ELSE IF inf[t].table = "plain"
    THEN [reg EXCEPT !.plain[inf[t].field] = SeqRemove(@, t)]
    ELSE [reg EXCEPT !.keyed[inf[t].field][inf[t].key] = SeqRemove(@, t)]

TableStep(reg, inf, e) ==
    IF e.type = "call"
    THEN TableDrop(IF inf[e.tok].once \/ inf[e.tok].self
                   THEN TableDrop(reg, inf, e.tok) ELSE reg,
                   inf, inf[e.tok].removes)
    ELSE IF e.type = "add"
    THEN IF inf[e.tok].table = "plain"
         THEN [reg EXCEPT !.plain[e.field] = Append(@, e.tok)]
         ELSE [reg EXCEPT !.keyed[e.field][e.key] = Append(@, e.tok)]
    ELSE reg

\* The table when line i of the record lg was written.
RECURSIVE TableAt(_, _, _, _)
TableAt(reg, inf, lg, i) ==
    IF i <= 1 THEN reg
    ELSE TableStep(TableAt(reg, inf, lg, i - 1), inf, lg[i - 1])

\* The pass that line i of the record opens: the registrations invoked
\* between the emit / emitKeyed call of line i and the store's next step.
RECURSIVE PassEnd(_, _)
PassEnd(lg, j) ==
    IF j > Len(lg) \/ lg[j].type \in {"emit", "emitKeyed", "extract"} THEN j - 1
    ELSE PassEnd(lg, j + 1)

PassCalls(lg, i) ==
    LET calls == SelectSeq(SubSeq(lg, i + 1, PassEnd(lg, i + 1)),
                           LAMBDA e : e.type = "call")
    IN  [n \in 1..Len(calls) |-> calls[n].tok]

\* The listeners an emit / emitKeyed call finds registered.
Registered(reg, e) ==
    IF e.type = "emit" THEN reg.plain[e.field]
    ELSE (IF e.key \in DOMAIN reg.keyed[e.field] THEN reg.keyed[e.field][e.key]
          ELSE <<>>) \o reg.keyed[e.field][Star]

C23_WitnessAdded ==
    /\ last.op = "update" /\ last.outcome = "ok"
    /\ Len(info) = 2
    /\ info[1].table = "plain" /\ info[1].adds
    /\ plain["b"] = <<1, 2>>
    /\ \E i \in 1..Len(log) :
          /\ log[i].type = "emit"
          /\ PassCalls(log, i) = <<1>>
    /\ CallsOf(2) = <<>>

\* ----------------------------------------------------------------- C24
\* The pass line q of the record belongs to: the last emit / emitKeyed line
\* at or before it.
RECURSIVE PassOf(_, _)
PassOf(lg, q) ==
    IF q < 1 THEN 0
    ELSE IF lg[q].type \in {"emit", "emitKeyed"} THEN q
    ELSE PassOf(lg, q - 1)

\* The lines of the record where registration t is invoked, and those where
\* a callback removes it: the call of t itself when t is a one-shot listener
\* or unsubscribes itself, the call of a callback that unsubscribes t (a
\* callback whose target is yet to be registered holds no closure to call).
CallLines(lg, t) == {q \in 1..Len(lg) : lg[q].type = "call" /\ lg[q].tok = t}

\* Registrations are numbered in the order they are made: registration t
\* exists when line p is written unless a later line records its making.
ExistsAt(lg, inf, t, p) ==
    t <= Len(inf) - Cardinality({j \in p..Len(lg) : lg[j].type = "add"})

RemovalLines(lg, inf, t) ==
    {p \in 1..Len(lg) :
        /\ lg[p].type = "call"
        /\ \/ lg[p].tok = t /\ (inf[t].once \/ inf[t].self)
           \/ /\ inf[lg[p].tok].removes = t
              /\ ~inf[lg[p].tok].self /\ ~inf[lg[p].tok].throws
              /\ ExistsAt(lg, inf, t, p)}

ApplyEdit(st, e) ==
    IF Len(e.path) = 0 THEN e.value
    ELSE IF Len(e.path) = 1 THEN [st EXCEPT ![e.path[1]] = e.value]
    ELSE [st EXCEPT ![e.path[1]][e.path[2]] = e.value]

RECURSIVE ApplyEdits(_, _, _)
ApplyEdits(st, edits, i) ==
    IF i > Len(edits) THEN st
    ELSE ApplyEdits(ApplyEdit(st, edits[i]), edits, i + 1)

\* The state the store should hold when line q of the record is written: s0
\* with the edits of the update calls the callbacks made before that line.
RECURSIVE HeldAt(_, _, _)
HeldAt(s0, lg, q) ==
    IF q <= 1 THEN s0
    ELSE IF lg[q - 1].type = "update"
    THEN ApplyEdits(HeldAt(s0, lg, q - 1), lg[q - 1].args[2], 1)
    ELSE HeldAt(s0, lg, q - 1)

\* C25: update stores the Producer's state before it groups and dispatches.
\* In an update that returns, every read of the store made by a listener,
\* and every update call made by a listener, finds the state of before the
\* call with all edits of the call applied (the edits of fields whose event
\* is still to be emitted included) and the edits of the updates listeners
\* made in between; the state the call leaves is that state too.
C25_ListenersSeeNewState ==
    [][(last'.op = "update" /\ last'.outcome = "ok") =>
          /\ \A q \in 1..Len(log') :
                log'[q].type \in {"get", "update"} =>
                    log'[q].args[1] =
                        HeldAt(ApplyEdits(state, last'.patches, 1), log', q)
          /\ state' = HeldAt(ApplyEdits(state, last'.patches, 1), log',
                             Len(log') + 1)]_vars

\* An update of a.k1 and b.k1 with two listeners on field a's event, one that
\* reads the store and one that calls update: both run before b's event is
\* emitted, and both find b.k1 as the update's edit left it.
C25_Witness ==
    /\ last.op = "update" /\ last.outcome = "ok"
    /\ \E n \in 1..Len(last.patches), q, u, e \in 1..Len(log) :
          /\ last.patches[n].path = <<"b", "k1">>
          /\ log[q].type = "get" /\ log[q].field = "a"
          /\ log[u].type = "update" /\ q < u /\ u < e
          /\ log[e].type = "emit" /\ log[e].field = "b"
          /\ \E j \in 1..Len(log[e].args[1]) :
                log[e].args[1][j] = last.patches[n]
          /\ log[q].args[1]["b"]["k1"] = last.patches[n].value
          /\ log[u].args[1]["b"]["k1"] = last.patches[n].value

\* ----------------------------------------------------------------- C26
\* Whether the last update edited field f, and only the field's slot itself.
SlotOnly(f) ==
    /\ Touched(f)
    /\ \A i \in 1..Len(GroupOf(f)) : Len(GroupOf(f)[i].path) = 1

\* C26: an update that returns and whose edits of a field all have a path of
\* length one emits the field's plain event once, to its plain listeners,
\* and invokes no keyed listener of the field, specific or wildcard, and
\* emits no keyed event for it, whatever keyed listeners are registered.
C26_SlotEditsReachNoKeyedListener ==
    [][Returned' =>
          \A f \in Fields :
              SlotOnly(f)' =>
                  /\ Len(Steps("emit", f)') = 1
                  /\ Steps("emit", f)'[1].args = <<GroupOf(f)'>>
                  /\ Len(PlainCalls(f)') = Len(plain[f])
                  /\ Steps("emitKeyed", f)' = <<>>
                  /\ \A k \in Buckets(f) \cup {NoKey} : KeyedCalls(f, k)' = <<>>
                  /\ \A t \in UNION {KeyedRegs(f, k) : k \in Buckets(f)} :
                        CallsOf(t)' = <<>>]_vars

\* An update that replaced field b's slot while a plain listener and a
\* wildcard listener were registered for b: the plain listener was invoked,
\* the wildcard listener was not.
C26_Witness ==
    /\ Returned
    /\ SlotOnly("b")
    /\ \E t1, t2 \in AllRegs :
          /\ info[t1].table = "plain" /\ info[t1].field = "b"
          /\ info[t2].table = "keyed" /\ info[t2].field = "b" /\ info[t2].key = Star
          /\ Len(CallsOf(t1)) = 1
          /\ CallsOf(t2) = <<>>

\* ----------------------------------------------------------------- C27
\* The one-shot wildcard registrations, and the first key the last update
\* changed in field f: the second segment of the first edit of f that has one.
OneShotWildcards ==
    {t \in Tokens : info[t].api = "onceKeyed" /\ info[t].key = Star}

KeyEdits(f) == SelectSeq(GroupOf(f), LAMBDA e : Len(e.path) >= 2)

FirstKey(f) == KeyEdits(f)[1].path[2]

\* C27: a one-shot wildcard listener is invoked once in all. The first
\* update that changes a key of its field while it is registered invokes it
\* once, for the first key the update changed, with that key and the
\* field's edits, also when the update changed further keys; an update
\* that changes no key of the field leaves it registered and silent; and
\* once it has been invoked or unsubscribed no update invokes it.
C27_OneShotWildcardFiresForFirstKey ==
    [][\A t \in OneShotWildcards :
          Returned' =>
              /\ (t \in AllRegs /\ KeyEdits(info[t].field)' # <<>>) =>
                    /\ Len(CallsOf(t)') = 1
                    /\ CallsOf(t)'[1].via = "wild"
                    /\ CallsOf(t)'[1].key = FirstKey(info[t].field)'
                    /\ CallsOf(t)'[1].args =
                           <<FirstKey(info[t].field)', GroupOf(info[t].field)'>>
                    /\ t \notin AllRegs'
              /\ (t \in AllRegs /\ KeyEdits(info[t].field)' = <<>>) =>
                    /\ CallsOf(t)' = <<>>
                    /\ t \in AllRegs'
              /\ t \notin AllRegs => CallsOf(t)' = <<>>]_vars

\* An update that changed a.k2 and then a.k1 with a one-shot wildcard
\* listener registered: two keyed events were emitted and the listener was
\* invoked for k2 only, and is registered no more.
C27_Witness ==
    /\ Returned
    /\ Cardinality(SecondKeys("a")) = 2
    /\ FirstKey("a") = "k2"
    /\ Len(Steps("emitKeyed", "a")) = 2
    /\ \E t \in OneShotWildcards :
          /\ info[t].field = "a"
          /\ Len(CallsOf(t)) = 1
          /\ CallsOf(t)[1].key = "k2"
          /\ t \notin AllRegs
          /\ t \in fired

\* ----------------------------------------------------------------- C28
\* The keyed registrations of field f's event that were made and not taken
\* back: not unsubscribed, not removed by offKeyed, and, if one-shot, not
\* invoked yet.
LiveKeyed(f) ==
    {t \in Tokens : /\ info[t].table = "keyed" /\ info[t].field = f
                    /\ t \notin cancelled
                    /\ ~(info[t].once /\ t \in fired)}

\* C28: hasKeyedListeners(E) is true exactly when a specific-key or wildcard
\* registration of E exists that has not been removed by its unsubscribe
\* closure, by offKeyed or by firing as a one-shot listener; and an update
\* that returns does keyed work for a field it edited (extracts the changed
\* keys, emits keyed events) exactly when such a registration exists when it
\* is called: once the last one is gone, no keyed event is emitted.
C28_HasKeyedListenersTracksRegistrations ==
    [][/\ \A f \in Fields :
             hasKeyedListeners(Machine, f)' <=> (LiveKeyed(f)' # {})
       /\ Returned' =>
             \A f \in Fields :
                 /\ Touched(f)' =>
                       ((Steps("extract", f)' # <<>>) <=> (LiveKeyed(f) # {}))
                 /\ LiveKeyed(f) = {} =>
                       /\ Steps("emitKeyed", f)' = <<>>
                       /\ \A k \in Buckets(f) : KeyedCalls(f, k)' = <<>>]_vars

\* An update that changed a key of field b after both keyed listeners of b
\* were gone, one by firing as a one-shot listener and one by its closure or
\* offKeyed: no keyed event was emitted.
C28_Witness ==
    /\ Returned
    /\ SecondKeys("b") # {}
    /\ Steps("emit", "b") # <<>>
    /\ Steps("emitKeyed", "b") = <<>>
    /\ Steps("extract", "b") = <<>>
    /\ ~hasKeyedListeners(Machine, "b")
    /\ \E t1, t2 \in Tokens :
          /\ info[t1].table = "keyed" /\ info[t1].field = "b"
          /\ info[t2].table = "keyed" /\ info[t2].field = "b"
          /\ info[t1].once /\ t1 \in fired
          /\ ~info[t2].once /\ t2 \in cancelled

\* ----------------------------------------------------------------- C29
\* C29: update(key, mutate) of the per-field shape emits the field's plain
\* event exactly once per call that returns, with the edits the Producer
\* recorded, to every plain listener of the field, also when there is no
\* edit: the listeners then receive the empty list. An empty edit list
\* gives no keyed event and invokes no keyed listener.
C29_FieldUpdateAlwaysEmitsPlain ==
    [][\A f \in Fields :
          (last'.op = "updateField" /\ last'.field = f /\ last'.outcome = "ok") =>
              /\ Len(Steps("emit", f)') = 1
              /\ Steps("emit", f)'[1].args = <<last'.patches>>
              /\ \A g \in Fields \ {f} : Steps("emit", g)' = <<>>
              /\ \A t \in PlainRegs(f) :
                    /\ Len(CallsOf(t)') = 1
                    /\ CallsOf(t)'[1].args = <<last'.patches>>
              /\ last'.patches = <<>> =>
                    /\ Steps("emitKeyed", f)' = <<>>
                    /\ \A e \in {log'[i] : i \in 1..Len(log')} :
                          e.type = "call" => e.via = "plain"]_vars

\* A per-field update of a that recorded no edit, with a plain and a
\* wildcard listener registered for a: the plain listener was invoked with
\* the empty list, the wildcard listener was not invoked.
C29_Witness ==
    /\ last.op = "updateField" /\ last.outcome = "ok"
    /\ last.patches = <<>>
    /\ \E t1, t2 \in AllRegs :
          /\ info[t1].table = "plain" /\ info[t1].field = last.field
          /\ info[t2].table = "keyed" /\ info[t2].field = last.field
          /\ info[t2].key = Star
          /\ Len(CallsOf(t1)) = 1
          /\ CallsOf(t1)[1].args = << <<>> >>
          /\ CallsOf(t2) = <<>>

\* ----------------------------------------------------------------- C30
\* The edit lists the last operation handed to callbacks: to a plain or
\* specific-key listener as its only argument, to a wildcard listener after
\* the key.
Delivered ==
    {[field |-> log[i].field, edits |-> log[i].args[Len(log[i].args)]] :
        i \in {j \in 1..Len(log) : /\ log[j].type = "call"
                                   /\ log[j].via \in {"plain", "key", "wild"}
                                   /\ info[log[j].tok].kind = "cb"}}

\* C30: the edits delivered to the listeners of a field have paths relative
\* to the field, not to the state root: every path starts with a key of the
\* field (path <<k1>> for a change of a.k1), never with the field itself.
C30_DeliveredPathsFieldRelative ==
    \A d \in Delivered :
        \A i \in 1..Len(d.edits) :
            /\ Len(d.edits[i].path) >= 1
            /\ d.edits[i].path[1] \in KeysOf(d.field)

\* ----------------------------------------------------------------- C31
\* The operations that read or change the listener tables only, and the
\* two that make a value subscription.
QuietOps == {"get", "getState", "on", "off", "once", "onKeyed", "offKeyed", "onceKeyed"}

SubscribeOps == {"subscribe", "keyedSubscribe"}

\* A list without the registration made last.
Older(list, n) == SelectSeq(list, LAMBDA t : t # n)

\* C31: get, getState, on, off, once, onKeyed, offKeyed and onceKeyed leave
\* the store's state as it is and invoke no listener. A value subscription
\* (subscriptions.F(cb), keyedSubscriptions.F(K)(cb)) leaves the state as it
\* is, invokes cb once, with the field's value, and nothing else, and leaves
\* every registration made before where it was.
C31_ReadsAndRegistrationsAreQuiet ==
    [][/\ last'.op \in QuietOps =>
             /\ state' = state
             /\ Calls' = <<>>
       /\ last'.op \in SubscribeOps =>
             /\ state' = state
             /\ Len(log') = 1
             /\ log'[1].type = "call" /\ log'[1].cb = last'.cb
             /\ log'[1].tok = Len(info') /\ log'[1].args = <<state[last'.field]>>
             /\ Len(info') = Len(info) + 1
             /\ \A t \in Tokens : info'[t] = info[t]
             /\ cancelled' = cancelled /\ fired' = fired
             /\ \A f \in Fields :
                   /\ Older(plain'[f], Len(info')) = plain[f]
                   /\ \A k \in Buckets(f) :
                         Older(keyed'[f][k], Len(info')) = keyed[f][k]]_vars

\* A value subscription of field b made after an update changed b and with a
\* plain listener of b registered: the one call is the new subscriber's.
C31_Witness ==
    /\ last.op = "subscribe" /\ last.field = "b"
    /\ state["b"]["k1"] = 1
    /\ Len(info) = 2
    /\ info[1].api = "on" /\ info[1].field = "b" /\ info[1].cb # info[2].cb
    /\ plain["b"] = <<1, 2>>
    /\ Len(Calls) = 1 /\ Calls[1].tok = 2
    /\ Calls[1].args = <<state["b"]>>

\* ----------------------------------------------------------------- C32
\* The elements of a sequence, each once, in the order of first appearance.
RECURSIVE FirstAppearances(_, _, _)
FirstAppearances(seq, i, acc) ==
    IF i > Len(seq) THEN acc
    ELSE FirstAppearances(seq, i + 1,
                          IF Contains(acc, seq[i]) THEN acc ELSE Append(acc, seq[i]))

\* The fields an edit list names, and the keys it names below field f.
FieldOrder(edits) ==
    FirstAppearances([i \in 1..Len(edits) |-> edits[i].path[1]], 1, <<>>)

KeyOrder(edits, f) ==
    LET below == SelectSeq(edits, LAMBDA e : e.path[1] = f /\ Len(e.path) >= 2)
    IN  FirstAppearances([i \in 1..Len(below) |-> below[i].path[2]], 1, <<>>)

\* The events a reader of the edit list expects, in order: per field its
\* plain event, then, if the field's event has keyed listeners, one keyed
\* event per key.
EventsOfField(edits, f, withKeyed) ==
    <<[type |-> "emit", field |-> f, key |-> NoKey]>> \o
    (IF withKeyed
     THEN [i \in 1..Len(KeyOrder(edits, f)) |->
              [type |-> "emitKeyed", field |-> f, key |-> KeyOrder(edits, f)[i]]]
     ELSE <<>>)

RECURSIVE EventsExpected(_, _, _, _)
EventsExpected(edits, fields, i, withKeyed) ==
    IF i > Len(fields) THEN <<>>
    ELSE EventsOfField(edits, fields[i], withKeyed[fields[i]])
            \o EventsExpected(edits, fields, i + 1, withKeyed)

\* The events the last update emitted, in order.
EventsEmitted ==
    LET steps == SelectSeq(log, LAMBDA e : e.type \in {"emit", "emitKeyed"})
    IN  [i \in 1..Len(steps) |->
            [type |-> steps[i].type, field |-> steps[i].field, key |-> steps[i].key]]

\* C32: a whole-state update that returns dispatches field by field, in the
\* order in which the fields first appear in the edit list; for each field
\* the plain event comes first, once, whether keyed listeners are registered
\* or not, then the keyed events in the order in which the keys first appear,
\* and all of them come before the plain event of the next field.
C32_DispatchOrder ==
    [][Returned' =>
          EventsEmitted' =
              EventsExpected(last'.patches, FieldOrder(last'.patches), 1,
                             [f \in Fields |-> HasKeyed(f)])]_vars

\* An update of b.k1 and then a.k2 with a wildcard listener on each field:
\* b's plain and keyed events came before a's.
C32_Witness ==
    /\ Returned
    /\ FieldOrder(last.patches) = <<"b", "a">>
    /\ EventsEmitted = <<[type |-> "emit", field |-> "b", key |-> NoKey],
                         [type |-> "emitKeyed", field |-> "b", key |-> "k1"],
                         [type |-> "emit", field |-> "a", key |-> NoKey],
                         [type |-> "emitKeyed", field |-> "a", key |-> "k2"]>>
    /\ Len(Calls) = 2

\* ----------------------------------------------------------------- C33
\* The keyed registrations a callback made during the last operation: the
\* lines of the record that say so, for the keyed table.
KeyedAdds ==
    {i \in 1..Len(log) : log[i].type = "add" /\ info[log[i].tok].table = "keyed"}

\* C33: whether a field's event has keyed listeners is asked after the
\* field's plain listeners have run. With plain listeners that register a
\* keyed listener or unsubscribe another registration (and keyed listeners
\* that leave the tables alone), an update that touches a field emits keyed
\* events for it exactly when keyed listeners are registered once the plain
\* listeners have run: a keyed listener registered by a plain listener during
\* the update (and not removed again by a later plain listener) is invoked by
\* that update for every changed key it is registered for, and when a plain listener removed the last keyed listener
\* no keyed event is emitted.
C33_KeyedCheckFollowsPlainListeners ==
    [][\A f \in Fields :
          (Returned' /\ Touched(f)') =>
              /\ (Steps("emitKeyed", f)' # <<>>) <=> HasKeyed(f)'
              /\ (HasKeyed(f) /\ ~HasKeyed(f)') =>
                     /\ Steps("emitKeyed", f)' = <<>>
                     /\ Steps("extract", f)' = <<>>
              /\ \A i \in KeyedAdds' :
                     log'[i].field = f =>
                         \A k \in SecondKeys(f)' :
                             (/\ log'[i].key \in {k, Star}
                              /\ \E b \in Buckets(f) :
                                    /\ b = log'[i].key
                                    /\ log'[i].tok \in KeyedRegs(f, b)') =>
                                 \E j \in (i + 1)..Len(log') :
                                     /\ log'[j].type = "call"
                                     /\ log'[j].tok = log'[i].tok
                                     /\ log'[j].key = k
                                     /\ log'[j].cb = AddedCb]_vars

\* A plain listener of b registered a listener for key k1 while an update of
\* b.k1 was dispatched, no keyed listener having been registered before; the
\* new listener was invoked by that update's keyed event.
C33_Witness ==
    /\ Returned
    /\ Len(info) = 2
    /\ info[1].adds /\ info[1].addsKey = "k1"
    /\ info[2].table = "keyed" /\ info[2].key = "k1" /\ info[2].cb = AddedCb
    /\ KeyedAdds # {}
    /\ Len(Steps("emitKeyed", "b")) = 1
    /\ Len(CallsOf(2)) = 1
    /\ CallsOf(2)[1].via = "key"

\* A plain listener of b unsubscribed the only keyed listener while an update
\* of b.k1 was dispatched: the update emitted no keyed event.
C33_WitnessRemoved ==
    /\ Returned
    /\ Len(info) = 2
    /\ info[1].table = "keyed" /\ info[2].removes = 1
    /\ 1 \in cancelled
    /\ Len(CallsOf(2)) = 1
    /\ Touched("b")
    /\ Steps("emitKeyed", "b") = <<>>

\* ----------------------------------------------------------------- C34
\* How an update ends when it throws after the Producer has returned.
ThrewLate == {"threw", "listenerThrew"}

\* C34: nothing is rolled back. When update throws because the edit list has
\* an edit with an empty path, or because a listener threw, the store holds
\* the state of before the call with every edit of the Producer's list
\* applied, get and getState give it, and a get call that follows returns
\* it, whether or not listeners were invoked.
C34_NoRollback ==
    [][/\ (last'.op = "update" /\ last'.outcome \in ThrewLate) =>
              /\ last'.ret = <<>>
              /\ state' = ApplyEdits(state, last'.patches, 1)
              /\ \A f \in Fields :
                    /\ get(f)' = ApplyEdits(state, last'.patches, 1)[f]
                    /\ DerefIn(getState, state, f)' =
                           <<ApplyEdits(state, last'.patches, 1)[f]>>
       /\ (last.op = "update" /\ last.outcome \in ThrewLate /\ last'.op = "get") =>
              \A f \in Fields : last'.field = f => last'.ret = <<state[f]>>]_vars

\* The first of two plain listeners of a threw during an update of a.k1 and
\* b.k1: the second was never invoked, b's event was never emitted, and the
\* store holds both new values.
C34_Witness ==
    /\ last.op = "update" /\ last.outcome = "listenerThrew"
    /\ Len(last.patches) = 2
    /\ plain["a"] = <<1, 2>>
    /\ info[1].throws /\ ~info[2].throws
    /\ Len(Calls) = 1
    /\ Steps("emit", "b") = <<>>
    /\ state["a"]["k1"] = 1 /\ state["b"]["k1"] = 1

\* An update of a.k1 and of the root threw for the empty path with a listener
\* registered: no listener was invoked, and the store holds the new state.
C34_WitnessEmptyPath ==
    /\ last.op = "update" /\ last.outcome = "threw"
    /\ Len(last.patches) = 2 /\ Len(last.patches[2].path) = 0
    /\ Len(info) = 1
    /\ log = <<>>
    /\ state["a"]["k1"] = 0 /\ state["b"]["k1"] = 1

\* ----------------------------------------------------------------- C35
\* What the dispatch of an update of key k of field f does when no listener
\* changes the tables pl and ky while it runs, line by line: the plain event
\* and its listeners, then, when the event has keyed listeners, the
\* extraction, the keyed event, the listeners of the key and the wildcard
\* listeners.
DispatchLines(pl, ky, f, k) ==
    <<[type |-> "emit", via |-> "-", tok |-> 0]>>
    \o [j \in 1..Len(pl[f]) |-> [type |-> "call", via |-> "plain", tok |-> pl[f][j]]]
    \o (IF \E b \in Buckets(f) : Len(ky[f][b]) > 0
        THEN <<[type |-> "extract", via |-> "-", tok |-> 0],
               [type |-> "emitKeyed", via |-> "-", tok |-> 0]>>
             \o [j \in 1..Len(ky[f][k]) |->
                    [type |-> "call", via |-> "key", tok |-> ky[f][k][j]]]
             \o [j \in 1..Len(ky[f][Star]) |->
                    [type |-> "call", via |-> "wild", tok |-> ky[f][Star][j]]]
        ELSE <<>>)

\* The lines of the record where a callback called update with one edit, and
\* the field and key of that edit.
InnerCalls(lg) ==
    {i \in 1..Len(lg) : lg[i].type = "update" /\ Len(lg[i].args[2]) = 1
                           /\ Len(lg[i].args[2][1].path) = 2}

InnerField(lg, i) == lg[i].args[2][1].path[1]
InnerKey(lg, i) == lg[i].args[2][1].path[2]

\* What a line of the record carried: a value subscription's call the value
\* of the field, the other lines of a dispatch its edit group.
Carries(e, kind, edits, st) ==
    IF e.type = "extract" THEN TRUE
    ELSE IF e.type = "call" /\ kind = "sub" THEN e.args = <<st[e.field]>>
    ELSE IF e.type = "emitKeyed" \/ e.via = "wild" THEN e.args[2] = edits
    ELSE e.args[1] = edits

\* Whether line j lies within the dispatch of the update called at line i.
Within(lg, pl, ky, i, j) ==
    i < j /\ j <= i + Len(DispatchLines(pl, ky, InnerField(lg, i), InnerKey(lg, i)))

\* C35: an update a listener calls is dispatched whole before the listener
\* returns. With listeners that leave the tables alone, the lines that follow
\* the call in the record are exactly the dispatch of the inner update's
\* field: its plain event, its plain listeners, and its keyed event and
\* keyed listeners, each with the inner edit group, value subscriptions with
\* the value the inner update left; a listener the outer update invokes
\* after the call was invoked with the inner group before; and every value
\* subscription invoked in the whole update receives the value of its field
\* with the edits of all update calls made before it applied.
C35_InnerDispatchCompletesFirst ==
    [][Returned' =>
          /\ \A i \in InnerCalls(log') :
                LET f == InnerField(log', i)
                    lines == DispatchLines(plain', keyed', f, InnerKey(log', i))
                    inner == ApplyEdits(log'[i].args[1], log'[i].args[2], 1)
                IN  /\ i + Len(lines) <= Len(log')
                    /\ \A p \in 1..Len(lines) :
                          /\ log'[i + p].type = lines[p].type
                          /\ log'[i + p].via = lines[p].via
                          /\ log'[i + p].tok = lines[p].tok
                          /\ log'[i + p].field = f
                          /\ Carries(log'[i + p],
                                     IF lines[p].tok = 0 THEN "cb"
                                     ELSE info'[lines[p].tok].kind,
                                     log'[i].args[2], inner)
                    /\ \A j \in 1..Len(log') :
                          (/\ j > i
                           /\ log'[j].type = "call"
                           /\ log'[j].field = f
                           /\ \A i2 \in InnerCalls(log') :
                                 ~Within(log', plain', keyed', i2, j)) =>
                              \E p \in 1..Len(lines) :
                                  /\ log'[i + p].type = "call"
                                  /\ log'[i + p].tok = log'[j].tok
                                  /\ i + p < j
          /\ \A j \in 1..Len(log') :
                (log'[j].type = "call" /\ info'[log'[j].tok].kind = "sub") =>
                    log'[j].args =
                        <<HeldAt(ApplyEdits(state, last'.patches, 1), log', j)
                              [log'[j].field]>>]_vars

\* An update of a.k1 and b.k1 with a listener of a that updates b.k1 and a
\* value subscription of b: the subscription was invoked within the inner
\* update with the value that update left, and again by the outer update's
\* event of b, after it.
C35_Witness ==
    /\ Returned
    /\ Len(last.patches) = 2
    /\ Len(info) = 2
    /\ info[1].reenters /\ info[2].kind = "sub" /\ info[2].field = "b"
    /\ InnerCalls(log) = {3}
    /\ Len(CallsOf(2)) = 2
    /\ log[1].type = "emit" /\ log[1].field = "a"
    /\ log[2].type = "call" /\ log[2].tok = 1
    /\ log[4].type = "emit" /\ log[4].field = "b"
    /\ log[5].type = "call" /\ log[5].tok = 2
    /\ log[5].args = <<state["b"]>>
    /\ log[6].type = "emit" /\ log[6].field = "b"
    /\ log[7].type = "call" /\ log[7].tok = 2

\* ----------------------------------------------------------------- C36
\* An edit list with field f put in front of every path.
Rooted(edits, f) == [i \in 1..Len(edits) |-> [edits[i] EXCEPT !.path = <<f>> \o @]]

\* Whether line p of the record of update(f, m) and line w of the record of
\* update(m) say the same: the same step, the same listener found in the same
\* table for the same key, and the same edits but for the leading f.
SameLine(p, w, f) ==
    /\ p.type = w.type /\ p.via = w.via /\ p.field = w.field /\ p.key = w.key
    /\ p.tok = w.tok /\ p.cb = w.cb
    /\ Len(p.args) = Len(w.args)
    /\ IF p.type = "extract" THEN p.args = w.args
       ELSE /\ Rooted(p.args[Len(p.args)], f) = w.args[Len(w.args)]
            /\ Len(p.args) = 2 => p.args[1] = w.args[1]

C37_MapsFixedAtConstruction ==
    [][/\ last.op = "new" =>
              /\ subscriptions = DOMAIN state
              /\ keyedSubscriptions = DOMAIN state
       /\ subscriptions' = subscriptions
       /\ keyedSubscriptions' = keyedSubscriptions
       /\ \A f \in Fields :
             /\ (f \in DOMAIN state' /\ f \notin DOMAIN state) =>
                    /\ last'.op = "update"
                    /\ f \notin subscriptions' /\ f \notin keyedSubscriptions'
             /\ (last'.op \in SubscribeOps /\ last'.field = f /\ f \notin subscriptions) =>
                    /\ last'.outcome = "threw"
                    /\ info' = info /\ plain' = plain /\ keyed' = keyed
                    /\ log' = <<>>
             /\ (Returned' /\ Touched(f)' /\ f \notin subscriptions) =>
                    /\ Len(Steps("emit", f)') = 1
                    /\ \A t \in PlainRegs(f) : Len(CallsOf(t)') = 1
                    /\ HasKeyed(f) =>
                          \A k \in SecondKeys(f)' :
                              /\ \E i \in 1..Len(log') :
                                    /\ log'[i].type = "emitKeyed"
                                    /\ log'[i].field = f /\ log'[i].key = k
                              /\ \A t \in KeyedRegs(f, k) \cup KeyedRegs(f, Star) :
                                    \E i \in 1..Len(log') :
                                        /\ log'[i].type = "call"
                                        /\ log'[i].tok = t /\ log'[i].key = k]_vars

\* A store made without field b, an on listener and an onKeyed listener for
\* key k1 of b's event; an update created b and assigned b.k1: both
\* listeners were invoked, and neither map has an entry for b.
C37_Witness ==
    /\ Returned
    /\ DOMAIN state = Fields
    /\ subscriptions = {"a"} /\ keyedSubscriptions = {"a"}
    /\ Len(last.patches) = 2
    /\ last.patches[1].op = "add" /\ last.patches[1].path = <<"b">>
    /\ last.patches[2].path = <<"b", "k1">>
    /\ plain["b"] = <<1>> /\ keyed["b"]["k1"] = <<2>>
    /\ Len(Calls) = 2
    /\ Calls[1].tok = 1 /\ Calls[2].tok = 2 /\ Calls[2].key = "k1"

\* A value subscription of b was asked for after an update had created b:
\* the map has no entry, and the call failed.
C37_WitnessNoEntry ==
    /\ last.op = "subscribe" /\ last.field = "b" /\ last.outcome = "threw"
    /\ "b" \in DOMAIN state
    /\ "b" \notin subscriptions

====
